---- MODULE Spec2Model ----
(***************************************************************************)
(* FireSentinel detection pipeline: one run_cycle of the orchestrator      *)
(* (ingest -> dedup -> enrich -> cluster -> classify -> alert -> save),    *)
(* the FIRMS fan-out it ingests from, the dedup and clustering engines it  *)
(* calls, and the store they share.                                        *)
(*                                                                         *)
(* Geometry: `latitude` is the arc position in meters north of the         *)
(* equator and `longitude` the arc position in meters of equatorial arc    *)
(* east of a reference meridian (degrees times the length of one degree).  *)
(* Points that are compared lie within a few kilometers of each other, so  *)
(* their great-circle distance is the root of the squared north-south arc  *)
(* plus the squared east-west arc shortened by the cosine of the latitude. *)
(* The hotspots of a pipeline cycle lie on one meridian at the equator.    *)
(* Times: acq_date is a day number, acq_time minutes since midnight.       *)
(***************************************************************************)
EXTENDS Integers, Sequences, FiniteSets, TLC

----------------------------------------------------------------------------
(* Bounds of the model *)

\* most hotspots one FIRMS source returns in one fetch
MaxPerSource == 2
\* weather/road lookups that come back absent (None or exception) per batch
MaxLookupFaults == 2
\* largest batch handed to _enrich_batch on its own (SpecEnrichBatch)
MaxBatch == 11
\* lookups that come back absent in such a batch
MaxBatchFaults == 1
\* hotspots of earlier cycles found in the store when a cycle starts
MaxPrior == 1
\* largest alert count a dispatch reports
MaxAlerts == 2
\* largest batch handed to deduplicate on its own (SpecDedup)
MaxDedupBatch == 2
\* most rows of the hotspots table when such a batch arrives
MaxStored == 2
\* cycles that fetch the same batch in a row
MaxCycles == 2
\* largest history_count given to classify
MaxHistory == 1
\* largest nearby_event_count given to classify
MaxNearby == 2
\* largest hotspot count given to calculate_severity on its own
MaxHotspotCount == 12
\* interval triggers that fire while the process runs
MaxTriggers == 3
\* largest batch handed to cluster_hotspots on its own (SpecCluster)
MaxClusterBatch == 3
\* most active rows of the fire_events table when such a batch arrives
MaxClusterEvents == 2
\* most members of an event whose nighttime signal is scored on its own
MaxMembers == 3
\* get_weather_context calls of one batch (SpecWeather)
MaxQueries == 3
\* clock advances while such a batch is enriched
MaxTicks == 3
\* largest alerts.max_per_event_per_user of a configuration (SpecDispatch)
MaxPerPair == 2
\* largest alerts.cooldown_hours of a configuration
MaxCooldown == 2
\* most hours between one dispatch and the cycle before it
MaxElapsed == 2
\* dispatch_alerts calls for one event
MaxDispatches == 3

----------------------------------------------------------------------------
(* Program constants *)

_ENRICHMENT_CONCURRENCY == 10
\* weather.py: the grid step 0.25 degrees, in hundredths of a degree
_GRID_DEGREES == 25
_CACHE_TTL_MINUTES == 60
_BACKOFF_MAX_RETRIES == 3

spatial_tolerance_m == 750
temporal_tolerance_minutes == 30
spatial_radius_m == 1500
temporal_window_hours == 2
critical_frp_threshold_mw == 100

SUCCESS == "success"
PARTIAL == "partial"
FAILED == "failed"
PipelineStatus == {SUCCESS, PARTIAL, FAILED}

NoneVal == "None"

\* Source enum, in the order fetch_all_sources lists it
sources == <<"VIIRS_SNPP_NRT", "VIIRS_NOAA20_NRT", "VIIRS_NOAA21_NRT", "MODIS_NRT">>

----------------------------------------------------------------------------
(* Generic helpers *)

Abs(x) == IF x < 0 THEN -x ELSE x

\* variant: the first value wins
Max2Mut(a, b) == a

Max2(a, b) == IF a >= b THEN a ELSE b

Min2(a, b) == IF a <= b THEN a ELSE b

Range(s) == {s[i] : i \in 1..Len(s)}

RECURSIVE SeqSum(_)
SeqSum(s) == IF s = <<>> THEN 0 ELSE Head(s) + SeqSum(Tail(s))

RECURSIVE Flatten(_)
Flatten(ss) == IF ss = <<>> THEN <<>> ELSE Head(ss) \o Flatten(Tail(ss))

\* sequences over S of length at most n
SeqsUpTo(S, n) == UNION {[1..k -> S] : k \in 0..n}

----------------------------------------------------------------------------
(* The detections the satellites can report (RawHotspot) *)

HotspotUniverse ==
  { [source |-> "VIIRS_SNPP_NRT", latitude |-> 0, longitude |-> 0,
     acq_date |-> 1, acq_time |-> 210, frp |-> 10],
    [source |-> "VIIRS_SNPP_NRT", latitude |-> 500, longitude |-> 0,
     acq_date |-> 1, acq_time |-> 225, frp |-> 30],
    [source |-> "VIIRS_NOAA20_NRT", latitude |-> 1000, longitude |-> 0,
     acq_date |-> 1, acq_time |-> 240, frp |-> 20],
    [source |-> "MODIS_NRT", latitude |-> 3000, longitude |-> 0,
     acq_date |-> 1, acq_time |-> 1430, frp |-> 120] }

\* what one source returns when its request succeeds: parsed rows of that source
SourceRows(src) ==
  SeqsUpTo({h \in HotspotUniverse : h.source = src}, MaxPerSource)

----------------------------------------------------------------------------
(* ingestion/firms.py *)

\* a server's answers to the successive GETs of one request
ServerScripts ==
  { <<"200">>, <<"429", "200">>, <<"429", "429", "429", "200">>,
    <<"429", "429", "429", "429">>, <<"500">>, <<"timeout">>, <<"raise">> }

ResponseAt(responses, attempt) ==
  IF attempt + 1 <= Len(responses) THEN responses[attempt + 1]
  ELSE responses[Len(responses)]

\* FIRMSClient._request_with_backoff: the response text, None on an HTTP
\* error, a timeout or exhausted 429 retries; "raise" is any other exception
RECURSIVE _request_with_backoff(_, _)
_request_with_backoff(responses, attempt) ==
  IF attempt > _BACKOFF_MAX_RETRIES THEN NoneVal
  ELSE LET r == ResponseAt(responses, attempt) IN
       CASE r = "429" -> _request_with_backoff(responses, attempt + 1)
         [] r = "200" -> "text"
         [] r = "raise" -> "raise"
         [] OTHER -> NoneVal

\* FIRMSClient.fetch_hotspots: rows on success, [] when the request gave
\* None; `exc` when an exception other than an HTTP error escapes
fetch_hotspots(responses, rows) ==
  LET csv_text == _request_with_backoff(responses, 0) IN
  CASE csv_text = NoneVal -> [exc |-> FALSE, rows |-> <<>>]
    [] csv_text = "raise" -> [exc |-> TRUE, rows |-> <<>>]
    [] OTHER -> [exc |-> FALSE, rows |-> rows]

\* FIRMSClient.fetch_all_sources, lines 129-138: the results of the sources
\* that did not raise, concatenated in source order
CombineSources(fetched) ==
  Flatten([i \in 1..Len(fetched) |->
             IF fetched[i].result.exc THEN <<>> ELSE fetched[i].result.rows])

\* a fetch_hotspots task of the gather that has not finished
Pending == [done |-> FALSE, result |-> [exc |-> FALSE, rows |-> <<>>]]

\* a source's fetch failed: an HTTP error, a timeout or exhausted 429
\* retries (all three give None)
SourceFailed(responses) == _request_with_backoff(responses, 0) = NoneVal

----------------------------------------------------------------------------
(* ingestion/roads.py, processing/dedup.py *)

_EARTH_RADIUS_M == 6371000

\* math.cos of a latitude, in thousandths: the series 1 - x^2/2 + x^4/24 -
\* x^6/720 with x the latitude in radians (arc / _EARTH_RADIUS_M)
CosPermille(lat) ==
  LET x == Abs(lat) \div (_EARTH_RADIUS_M \div 1000)
      x2 == (x * x) \div 1000
  IN 1000 - x2 \div 2 + (x2 * x2) \div 24000
          - (((x2 * x2) \div 1000) * x2) \div 720000

\* least r in lo..hi with r * r >= n
RECURSIVE CeilSqrt(_, _, _)
CeilSqrt(n, lo, hi) ==
  IF lo >= hi THEN hi
  ELSE LET mid == (lo + hi) \div 2
       IN IF mid * mid >= n THEN CeilSqrt(n, lo, mid)
          ELSE CeilSqrt(n, mid + 1, hi)

\* great-circle distance of two nearby points in meters, rounded up (so
\* that comparing it with a whole number of meters is exact)
haversine_distance(lat1, lon1, lat2, lon2) ==
  LET dlat == Abs(lat2 - lat1)
      dlon == Abs(lon2 - lon1)
      ew2 == ((((dlon * dlon) \div 1000) * CosPermille(lat1)) \div 1000)
               * CosPermille(lat2)
  IN CeilSqrt(dlat * dlat + ew2, 0, dlat + dlon)

\* meters of arc in one degree of latitude (_EARTH_RADIUS_M * pi / 180)
MetersPerDegree == 111195

\* _bbox_padding_degrees, expressed in meters of arc (rounded down)
_bbox_padding_degrees(tolerance_m) ==
  (tolerance_m * 3 * MetersPerDegree) \div (2 * 111000)

MinOf(S) == CHOOSE x \in S : \A y \in S : x <= y

MaxOf(S) == CHOOSE x \in S : \A y \in S : x >= y

\* the unique-constraint key of the hotspots table
HotspotKey(h) == <<h.source, h.latitude, h.longitude, h.acq_date, h.acq_time>>

\* the duplicate test of deduplicate's inner loop
IsDuplicateOf(hs, ex) ==
  /\ ex.source = hs.source
  /\ ex.acq_date = hs.acq_date
  /\ ~(haversine_distance(hs.latitude, hs.longitude, ex.latitude, ex.longitude)
         > spatial_tolerance_m)
  /\ LET d == Abs(hs.acq_time - ex.acq_time)
         time_diff == IF d > 720 THEN 1440 - d ELSE d
     IN time_diff <= temporal_tolerance_minutes

\* variant: no candidate is compared with the rows of the store
deduplicateMut(hotspots, stored) == hotspots

\* deduplicate: one bounding-box query, then the per-candidate check
deduplicate(hotspots, stored) ==
  IF hotspots = <<>> THEN <<>>
  ELSE
    LET acq_dates == {h.acq_date : h \in Range(hotspots)}
        lats == {h.latitude : h \in Range(hotspots)}
        lons == {h.longitude : h \in Range(hotspots)}
        padding == _bbox_padding_degrees(spatial_tolerance_m)
        existing == {ex \in stored :
                       /\ ex.acq_date \in acq_dates
                       /\ ex.latitude >= MinOf(lats) - padding
                       /\ ex.latitude <= MaxOf(lats) + padding
                       /\ ex.longitude >= MinOf(lons) - padding
                       /\ ex.longitude <= MaxOf(lons) + padding}
        IsNew(hs) == ~\E ex \in existing : IsDuplicateOf(hs, ex)
    IN SelectSeq(hotspots, IsNew)

\* variant: one query per candidate
deduplicate_executesMut(hotspots) == Len(hotspots)

\* the session.execute calls of one deduplicate call: none on the early
\* return for an empty batch, else the one bounding-box query
deduplicate_executes(hotspots) ==
  IF hotspots = <<>> THEN 0 ELSE 1

\* variant: the unique constraint compares the inserted rows with the rows
\* of the table only
UniqueViolationMut(hotspots, stored) ==
  \E i \in 1..Len(hotspots), ex \in stored :
    HotspotKey(hotspots[i]) = HotspotKey(ex)

\* the flush of store_hotspots violates the unique constraint
UniqueViolation(hotspots, stored) ==
  \/ \E i, j \in 1..Len(hotspots) :
       i # j /\ HotspotKey(hotspots[i]) = HotspotKey(hotspots[j])
  \/ \E i \in 1..Len(hotspots), ex \in stored :
       HotspotKey(hotspots[i]) = HotspotKey(ex)

\* variant: the inserted rows do not reach the table
store_hotspotsMut(hotspots, stored) == stored

\* store_hotspots: the rows of the hotspots table after the insert
store_hotspots(hotspots, stored) == stored \cup Range(hotspots)

\* detections around the point of a parallel (42 S, 50 S) on the reference
\* meridian: the point itself, points east and north of it, other minutes
\* of the day, another source, another date
Parallels == {-4670190, -5559750}

DedupUniverse(parallel) ==
  LET At(src, north, east, date, minute) ==
        [source |-> src, latitude |-> parallel + north, longitude |-> east,
         acq_date |-> date, acq_time |-> minute, frp |-> 10]
  IN { At("VIIRS_SNPP_NRT", 0, 0, 1, 210),
       At("VIIRS_SNPP_NRT", 0, 1150, 1, 210),
       At("VIIRS_SNPP_NRT", 750, 0, 1, 240),
       At("VIIRS_SNPP_NRT", 751, 0, 1, 210),
       At("VIIRS_SNPP_NRT", 0, 0, 1, 241),
       At("VIIRS_SNPP_NRT", 0, 0, 1, 10),
       At("VIIRS_SNPP_NRT", 0, 0, 1, 1430),
       At("VIIRS_NOAA20_NRT", 0, 0, 1, 210),
       At("VIIRS_SNPP_NRT", 0, 0, 2, 210) }

----------------------------------------------------------------------------
(* processing/clustering.py *)

\* Coordinates of event centres are means, kept as exact fractions n/d
RECURSIVE Gcd(_, _)
Gcd(a, b) == IF b = 0 THEN a ELSE Gcd(b, a % b)

Frac(n, d) == LET g == Gcd(Abs(n), d) IN [n |-> n \div g, d |-> d \div g]

\* variant: the FRP override is consulted only below the count table
calculate_severityFrpMut(hotspot_count, max_frp) ==
  IF hotspot_count >= 10 THEN "critical"
  ELSE IF 6 <= hotspot_count /\ hotspot_count <= 9 THEN "high"
  ELSE IF 3 <= hotspot_count /\ hotspot_count <= 5 THEN "medium"
  ELSE IF max_frp > critical_frp_threshold_mw THEN "critical"
  ELSE "low"

\* variant: the critical range starts above its lower end
calculate_severityMut(hotspot_count, max_frp) ==
  IF max_frp > critical_frp_threshold_mw THEN "critical"
  ELSE IF hotspot_count > 10 THEN "critical"
  ELSE IF 6 <= hotspot_count /\ hotspot_count <= 9 THEN "high"
  ELSE IF 3 <= hotspot_count /\ hotspot_count <= 5 THEN "medium"
  ELSE "low"

calculate_severity(hotspot_count, max_frp) ==
  IF max_frp > critical_frp_threshold_mw THEN "critical"
  ELSE IF hotspot_count >= 10 THEN "critical"
  ELSE IF 6 <= hotspot_count /\ hotspot_count <= 9 THEN "high"
  ELSE IF 3 <= hotspot_count /\ hotspot_count <= 5 THEN "medium"
  ELSE "low"

\* calculate_centroid: the mean latitude of the members (longitude is fixed)
calculate_centroid(hs_list) ==
  IF hs_list = <<>> THEN Frac(0, 1)
  ELSE Frac(SeqSum([i \in 1..Len(hs_list) |-> hs_list[i].hotspot.latitude]),
            Len(hs_list))

_hotspot_datetime(hs) == hs.hotspot.acq_date * 1440 + hs.hotspot.acq_time

\* distance of a hotspot to a fractional centre is within radius_m
WithinRadius(hs, centre, radius_m) ==
  Abs(hs.hotspot.latitude * centre.d - centre.n) <= radius_m * centre.d

\* sorted(hotspots, key=_hotspot_datetime): stable insertion
RECURSIVE InsertSorted(_, _)
InsertSorted(hs, sorted) ==
  IF sorted = <<>> THEN <<hs>>
  ELSE IF _hotspot_datetime(Head(sorted)) <= _hotspot_datetime(hs)
       THEN <<Head(sorted)>> \o InsertSorted(hs, Tail(sorted))
       ELSE <<hs>> \o sorted

RECURSIVE SortByDatetime(_)
SortByDatetime(hotspots) ==
  IF hotspots = <<>> THEN <<>>
  ELSE InsertSorted(hotspots[Len(hotspots)],
                    SortByDatetime(SubSeq(hotspots, 1, Len(hotspots) - 1)))

\* _fetch_active_events_for_clustering: active rows whose centre lies in the
\* padded bounding box of the batch, in insertion (id) order
_fetch_active_events_for_clustering(hotspots, rows) ==
  IF hotspots = <<>> THEN <<>>
  ELSE
    LET padding == _bbox_padding_degrees(spatial_radius_m)
        lats == {hotspots[i].hotspot.latitude : i \in 1..Len(hotspots)}
        InBox(ev) ==
          /\ ev.is_active
          /\ ev.center_lat.n >= (MinOf(lats) - padding) * ev.center_lat.d
          /\ ev.center_lat.n <= (MaxOf(lats) + padding) * ev.center_lat.d
    IN SelectSeq(rows, InBox)

\* index of the first cluster the hotspot joins, 0 when none qualifies
\* (clusters seeded from rows of the store come first, in query order)
FirstDbCluster(hs, clusters) ==
  LET hits == {i \in 1..Len(clusters) :
                 /\ clusters[i].db_event # <<>>
                 /\ WithinRadius(hs, clusters[i].db_event[1].center_lat,
                                 spatial_radius_m)}
  IN IF hits = {} THEN 0 ELSE MinOf(hits)

FirstMemoryCluster(hs, clusters) ==
  LET hits == {i \in 1..Len(clusters) :
                 /\ clusters[i].hs_list # <<>>
                 /\ WithinRadius(hs, calculate_centroid(clusters[i].hs_list),
                                 spatial_radius_m)
                 /\ \E k \in 1..Len(clusters[i].hs_list) :
                      Abs(_hotspot_datetime(hs)
                          - _hotspot_datetime(clusters[i].hs_list[k]))
                        <= temporal_window_hours * 60}
  IN IF hits = {} THEN 0 ELSE MinOf(hits)

\* variant: without the `continue` after a store event took the hotspot,
\* so that the pass over the clusters with members takes it once more
RECURSIVE AssignClustersMut(_, _)
AssignClustersMut(sorted_hotspots, clusters) ==
  IF sorted_hotspots = <<>> THEN clusters
  ELSE
    LET hs == Head(sorted_hotspots)
        d == FirstDbCluster(hs, clusters)
        taken == IF d # 0
                 THEN [clusters EXCEPT ![d].hs_list = Append(@, hs)]
                 ELSE clusters
        m == FirstMemoryCluster(hs, taken)
        next == IF m # 0
                THEN [taken EXCEPT ![m].hs_list = Append(@, hs)]
                ELSE Append(taken, [hs_list |-> <<hs>>, db_event |-> <<>>])
    IN AssignClustersMut(Tail(sorted_hotspots), next)

\* the assignment loop over the sorted hotspots
RECURSIVE AssignClusters(_, _)
AssignClusters(sorted_hotspots, clusters) ==
  IF sorted_hotspots = <<>> THEN clusters
  ELSE
    LET hs == Head(sorted_hotspots)
        d == FirstDbCluster(hs, clusters)
        m == FirstMemoryCluster(hs, clusters)
        idx == IF d # 0 THEN d ELSE m
        next == IF idx # 0
                THEN [clusters EXCEPT ![idx].hs_list = Append(@, hs)]
                ELSE Append(clusters, [hs_list |-> <<hs>>, db_event |-> <<>>])
    IN AssignClusters(Tail(sorted_hotspots), next)

\* the FireEvent built from one non-empty cluster, and the row it writes
\* (a cluster's db_event is <<row>>, or <<>> for None)
BuildEvent(cluster, new_id) ==
  LET hs_list == cluster.hs_list
      db_event == IF cluster.db_event # <<>> THEN cluster.db_event[1] ELSE NoneVal
      centroid == calculate_centroid(hs_list)
      max_frp == MaxOf({hs_list[i].hotspot.frp : i \in 1..Len(hs_list)})
      datetimes == {_hotspot_datetime(hs_list[i]) : i \in 1..Len(hs_list)}
      first_detected == MinOf(datetimes)
      last_updated == MaxOf(datetimes)
  IN IF cluster.db_event # <<>>
     THEN
       LET existing_count == db_event.hotspot_count
           new_count == Len(hs_list)
           total_count == existing_count + new_count
           combined_max_frp == Max2(max_frp, db_event.max_frp)
           merged_lat ==
             Frac(db_event.center_lat.n * existing_count * centroid.d
                    + centroid.n * new_count * db_event.center_lat.d,
                  db_event.center_lat.d * centroid.d * total_count)
           severity == calculate_severity(total_count, combined_max_frp)
           merged_updated == Max2(last_updated, db_event.last_updated_at)
       IN [row |-> [db_event EXCEPT !.center_lat = merged_lat,
                                    !.hotspot_count = total_count,
                                    !.max_frp = combined_max_frp,
                                    !.severity = severity,
                                    !.last_updated_at = merged_updated],
           event |-> [id |-> db_event.id, center_lat |-> merged_lat,
                      hotspots |-> hs_list, severity |-> severity,
                      max_frp |-> combined_max_frp,
                      first_detected |-> db_event.first_detected_at,
                      last_updated |-> merged_updated,
                      intent |-> NoneVal, is_active |-> TRUE]]
     ELSE
       LET hotspot_count == Len(hs_list)
           severity == calculate_severity(hotspot_count, max_frp)
       IN [row |-> [id |-> new_id, center_lat |-> centroid,
                    severity |-> severity, hotspot_count |-> hotspot_count,
                    max_frp |-> max_frp, first_detected_at |-> first_detected,
                    last_updated_at |-> last_updated,
                    intent_score |-> NoneVal, is_active |-> TRUE],
           event |-> [id |-> new_id, center_lat |-> centroid,
                      hotspots |-> hs_list, severity |-> severity,
                      max_frp |-> max_frp, first_detected |-> first_detected,
                      last_updated |-> last_updated,
                      intent |-> NoneVal, is_active |-> TRUE]]

\* variant: a stored event no hotspot was assigned to is returned as well
RECURSIVE BuildEventsMut(_, _)
BuildEventsMut(clusters, acc) ==
  IF clusters = <<>> THEN acc
  ELSE
    LET c == Head(clusters) IN
    IF c.hs_list = <<>>
    THEN LET row == c.db_event[1] IN
         BuildEventsMut(Tail(clusters),
           [rows |-> acc.rows,
            events |-> Append(acc.events,
              [id |-> row.id, center_lat |-> row.center_lat,
               hotspots |-> <<>>, severity |-> row.severity,
               max_frp |-> row.max_frp,
               first_detected |-> row.first_detected_at,
               last_updated |-> row.last_updated_at,
               intent |-> NoneVal, is_active |-> TRUE])])
    ELSE
      LET b == BuildEvent(c, Len(acc.rows) + 1)
          rows == IF c.db_event # <<>>
                  THEN [i \in 1..Len(acc.rows) |->
                          IF acc.rows[i].id = b.row.id THEN b.row ELSE acc.rows[i]]
                  ELSE Append(acc.rows, b.row)
      IN BuildEventsMut(Tail(clusters),
                        [rows |-> rows, events |-> Append(acc.events, b.event)])

\* the loop that builds the events: acc holds the rows of the table so far
\* and the events returned so far
RECURSIVE BuildEvents(_, _)
BuildEvents(clusters, acc) ==
  IF clusters = <<>> THEN acc
  ELSE
    LET c == Head(clusters) IN
    IF c.hs_list = <<>> THEN BuildEvents(Tail(clusters), acc)
    ELSE
      LET b == BuildEvent(c, Len(acc.rows) + 1)
          rows == IF c.db_event # <<>>
                  THEN [i \in 1..Len(acc.rows) |->
                          IF acc.rows[i].id = b.row.id THEN b.row ELSE acc.rows[i]]
                  ELSE Append(acc.rows, b.row)
      IN BuildEvents(Tail(clusters),
                     [rows |-> rows, events |-> Append(acc.events, b.event)])

\* cluster_hotspots: the events returned and the rows of the fire_events
\* table as the session sees them before commit
cluster_hotspots(hotspots, rows) ==
  IF hotspots = <<>> THEN [rows |-> rows, events |-> <<>>]
  ELSE
    LET sorted_hotspots == SortByDatetime(hotspots)
        active_events == _fetch_active_events_for_clustering(sorted_hotspots, rows)
        seeded == [i \in 1..Len(active_events) |->
                     [hs_list |-> <<>>, db_event |-> <<active_events[i]>>]]
        clusters == AssignClusters(sorted_hotspots, seeded)
    IN BuildEvents(clusters, [rows |-> rows, events |-> <<>>])

\* the non-empty clusters in the order the build loop visits them
ClustersToBuild(hotspots, rows) ==
  LET sorted_hotspots == SortByDatetime(hotspots)
      active_events == _fetch_active_events_for_clustering(sorted_hotspots, rows)
      seeded == [i \in 1..Len(active_events) |->
                   [hs_list |-> <<>>, db_event |-> <<active_events[i]>>]]
  IN SelectSeq(AssignClusters(sorted_hotspots, seeded),
               LAMBDA c : c.hs_list # <<>>)

\* the rows of the fire_events table as the session sees them once the
\* build loop has flushed its first k clusters
FlushedRows(hotspots, rows, k) ==
  BuildEvents(SubSeq(ClustersToBuild(hotspots, rows), 1, k),
              [rows |-> rows, events |-> <<>>]).rows

----------------------------------------------------------------------------
(* processing/classifier.py: the six signal scorers and _renormalize.      *)
(* intent_scoring of config/monitoring.yml: the weights (they sum to 100), *)
(* the road distance tiers in metres and the local night hours.            *)

lightning_absence == 25
road_proximity == 20
nighttime_ignition == 20
historical_repeat == 15
multi_point_ignition == 10
dry_conditions == 10

very_close == 200
close == 500
near == 1000
moderate == 2000

peak == <<22, 5>>
shoulder == <<5, 7>>
shoulder_evening == <<20, 22>>

\* round() of Python on the rational num/den, num >= 0 and den > 0: the
\* nearest integer, a tie going to the even neighbour.  The products the
\* classifier rounds are either exact in binary floating point (the scales
\* 100/80 and 100/40, the only ones under which a tie occurs) or at least
\* 1/(2*den) away from a tie, so the rational result is the float result.
RoundHalfUp(num, den) == (2 * num + den) \div (2 * den)

RoundHalfEven(num, den) ==
  LET q == num \div den
      r2 == 2 * (num % den)
  IN IF r2 < den THEN q
     ELSE IF r2 > den THEN q + 1
     ELSE IF q % 2 = 0 THEN q ELSE q + 1

Scored(score) == [score |-> score, avail |-> TRUE]
Unavailable == [score |-> 0, avail |-> FALSE]

\* weather and road are <<>> (None) or a one-element sequence holding the
\* context; cape in J/kg, humidity in percent, precipitation in mm
_score_lightning(weather) ==
  IF weather = <<>> THEN Unavailable
  ELSE LET weight == lightning_absence
       IN IF weather[1].has_thunderstorm THEN Scored(0)
          ELSE IF weather[1].cape >= 1000 THEN Scored(0)
          ELSE IF weather[1].cape >= 500
               THEN Scored(RoundHalfEven(weight * 60, 100))
          ELSE Scored(weight)

_score_road_proximity(road) ==
  IF road = <<>> THEN Unavailable
  ELSE LET weight == road_proximity
           dist == road[1].nearest_distance_m
       IN IF dist < very_close THEN Scored(weight)
          ELSE IF dist < close THEN Scored(RoundHalfEven(weight * 75, 100))
          ELSE IF dist < near THEN Scored(RoundHalfEven(weight * 50, 100))
          ELSE IF dist < moderate THEN Scored(RoundHalfEven(weight * 25, 100))
          ELSE Scored(0)

\* the earliest member's UTC hour shifted to Argentina local time
_get_local_hour(utc_hour) == (utc_hour - 3) % 24

_in_hour_range(hour, start, end) ==
  IF start <= end THEN start <= hour /\ hour < end
  ELSE hour >= start \/ hour < end

_score_nighttime(utc_hour) ==
  LET weight == nighttime_ignition
      local_hour == _get_local_hour(utc_hour)
  IN IF _in_hour_range(local_hour, peak[1], peak[2]) THEN Scored(weight)
     ELSE IF _in_hour_range(local_hour, shoulder[1], shoulder[2])
          THEN Scored(RoundHalfEven(weight * 50, 100))
     ELSE IF _in_hour_range(local_hour, shoulder_evening[1],
                            shoulder_evening[2])
          THEN Scored(RoundHalfEven(weight * 50, 100))
     ELSE Scored(0)

\* the loop of _get_local_hour over event.hotspots: the smallest acq_time
\* (a time of day, in minutes) of the members
earliest_time(hotspots) ==
  MinOf({hotspots[i].hotspot.acq_time : i \in 1..Len(hotspots)})

\* the local hour _get_local_hour returns for an event without hotspots
DefaultLocalHour == 12

\* _score_nighttime(event): the score of the hour _get_local_hour(event)
\* returns
_score_nighttime_event(hotspots) ==
  _score_nighttime(IF hotspots = <<>> THEN (DefaultLocalHour + 3) % 24
                   ELSE earliest_time(hotspots) \div 60)

\* variant: without history the signal counts as unavailable
_score_historicalMut(history_count, months_since_last) ==
  IF history_count = 0 \/ months_since_last = <<>> THEN Unavailable
  ELSE Scored(historical_repeat)

\* months_since_last is <<>> (None) or <<months>>
_score_historical(history_count, months_since_last) ==
  LET weight == historical_repeat
  IN IF history_count = 0 \/ months_since_last = <<>> THEN Scored(0)
     ELSE IF months_since_last[1] < 12 THEN Scored(weight)
     ELSE IF months_since_last[1] < 24
          THEN Scored(RoundHalfEven(weight * 67, 100))
     ELSE IF months_since_last[1] < 36
          THEN Scored(RoundHalfEven(weight * 33, 100))
     ELSE Scored(0)

_score_multi_point(nearby_event_count) ==
  LET weight == multi_point_ignition
  IN IF nearby_event_count >= 2 THEN Scored(weight)
     ELSE IF nearby_event_count = 1
          THEN Scored(RoundHalfEven(weight * 50, 100))
     ELSE Scored(0)

_score_dry_conditions(weather) ==
  IF weather = <<>> THEN Unavailable
  ELSE LET weight == dry_conditions
       IN IF weather[1].humidity_pct < 25
             /\ weather[1].precipitation_mm_72h = 0 THEN Scored(weight)
          ELSE IF weather[1].humidity_pct < 35
                  /\ weather[1].precipitation_mm_72h < 2
               THEN Scored(RoundHalfEven(weight * 50, 100))
          ELSE Scored(0)

Signal(scored, max_w) ==
  [score |-> scored.score, max_w |-> max_w, avail |-> scored.avail]

\* classify: the (raw_score, max_weight, is_available) tuples in the order
\* lightning, road, night, history, multi_point, dry; every scorer is given
\* its own argument only.  The variant scores the road only when weather
\* data is there.
SignalsOfMut(inp) ==
  << Signal(_score_lightning(inp.weather), lightning_absence),
     Signal(_score_road_proximity(IF inp.weather = <<>> THEN <<>>
                                  ELSE inp.road), road_proximity),
     Signal(_score_nighttime(inp.utc_hour), nighttime_ignition),
     Signal(_score_historical(inp.history_count, inp.months_since_last),
            historical_repeat),
     Signal(_score_multi_point(inp.nearby_event_count), multi_point_ignition),
     Signal(_score_dry_conditions(inp.weather), dry_conditions) >>

SignalsOf(inp) ==
  << Signal(_score_lightning(inp.weather), lightning_absence),
     Signal(_score_road_proximity(inp.road), road_proximity),
     Signal(_score_nighttime(inp.utc_hour), nighttime_ignition),
     Signal(_score_historical(inp.history_count, inp.months_since_last),
            historical_repeat),
     Signal(_score_multi_point(inp.nearby_event_count), multi_point_ignition),
     Signal(_score_dry_conditions(inp.weather), dry_conditions) >>

IntentBreakdown(scores, active_signals, total_signals) ==
  [lightning_score |-> scores[1], road_score |-> scores[2],
   night_score |-> scores[3], history_score |-> scores[4],
   multi_point_score |-> scores[5], dry_conditions_score |-> scores[6],
   active_signals |-> active_signals, total_signals |-> total_signals]

\* IntentBreakdown.total
total(b) ==
  b.lightning_score + b.road_score + b.night_score + b.history_score
    + b.multi_point_score + b.dry_conditions_score

\* variant: the bands exclude their upper ends
labelMut(b) ==
  LET score == total(b)
  IN IF score < 25 THEN "natural"
     ELSE IF score < 50 THEN "uncertain"
     ELSE IF score < 75 THEN "suspicious"
     ELSE "likely_intentional"

\* IntentBreakdown.label
label(b) ==
  LET score == total(b)
  IN IF score <= 25 THEN "natural"
     ELSE IF score <= 50 THEN "uncertain"
     ELSE IF score <= 75 THEN "suspicious"
     ELSE "likely_intentional"

available_max(signals) ==
  SeqSum([i \in 1..Len(signals) |->
            IF signals[i].avail THEN signals[i].max_w ELSE 0])

\* each available score scaled by 100 / available_max and rounded
Rescaled(signals) ==
  [i \in 1..Len(signals) |->
     IF signals[i].avail
     THEN RoundHalfEven(signals[i].score * 100, available_max(signals))
     ELSE 0]

\* list.index(max(list)): the first position of the largest element
IndexOfMax(xs) ==
  CHOOSE i \in 1..Len(xs) :
    /\ \A j \in 1..Len(xs) : xs[j] <= xs[i]
    /\ \A j \in 1..(i - 1) : xs[j] < xs[i]

\* the variant leaves out the cap on the rounded sum
_renormalizeMut(signals) ==
  LET total_signals == Len(signals)
      active_signals == Cardinality({i \in 1..Len(signals) : signals[i].avail})
      raw_scores == [i \in 1..Len(signals) |-> signals[i].score]
  IN IF available_max(signals) = 0
     THEN IntentBreakdown(<<0, 0, 0, 0, 0, 0>>, 0, total_signals)
     ELSE IF available_max(signals) = 100
     THEN IntentBreakdown(raw_scores, active_signals, total_signals)
     ELSE IntentBreakdown(Rescaled(signals), active_signals, total_signals)

_renormalize(signals) ==
  LET total_signals == Len(signals)
      active_signals == Cardinality({i \in 1..Len(signals) : signals[i].avail})
      raw_scores == [i \in 1..Len(signals) |-> signals[i].score]
      renormalized == Rescaled(signals)
      sum == SeqSum(renormalized)
      capped == IF sum > 100
                THEN [renormalized EXCEPT ![IndexOfMax(renormalized)] =
                                            @ - (sum - 100)]
                ELSE renormalized
  IN IF available_max(signals) = 0
     THEN IntentBreakdown(<<0, 0, 0, 0, 0, 0>>, 0, total_signals)
     ELSE IF available_max(signals) = 100
     THEN IntentBreakdown(raw_scores, active_signals, total_signals)
     ELSE IntentBreakdown(capped, active_signals, total_signals)

classify(inp) == _renormalize(SignalsOf(inp))

----------------------------------------------------------------------------
(* core/pipeline.py: the state of one run_cycle and of the store *)

VARIABLES
  pc,              \* position of run_cycle: the stage it is about to run
  dispatcher,      \* TRUE when an alert dispatcher is configured
  run_id,          \* id of this cycle's run record
  raw_hotspots,    \* run_cycle locals
  new_hotspots,
  enriched,
  events,
  errors,
  stage_failures,
  record,          \* the PipelineRunRecord being filled in
  semaphore,       \* _enrich_batch: free slots of the asyncio.Semaphore
  unit,            \* _enrich_batch: state of each _limited_enrich task
  lookups,         \* _enrich_hotspot: what the two lookups of each unit gave
  results,         \* _enrich_batch: EnrichedHotspot returned by each task
  db_hotspots,     \* store: rows of the hotspots table
  db_events,       \* store: rows of the fire_events table, in id order
  session_events,  \* rows of fire_events as the cluster stage's session last
                   \* saw them (flushed, committed or not)
  db_runs,         \* store: rows of the pipeline_runs table
  calls,           \* collaborator invocations made by this cycle
  raised,          \* collaborators that raised in this cycle
  fetching,        \* fetch_all_sources: result of each source's fetch_hotspots
  firms_failed,    \* number of FIRMS sub-sources whose fetch failed
  faults_left,     \* lookups that may still come back absent
  scoring_input,   \* classify: the event context and history it is given
  signals,         \* classify: the (raw_score, max_weight, is_available)s
  breakdown,       \* classify: the IntentBreakdown it returned
  severity_pair,   \* calculate_severity: two calls with the same peak FRP
  scheduler,       \* async_main: the interval job and the cycles in progress
  clocks,          \* what datetime.utcnow() and time.monotonic() read when
                   \* the cycle completes, counted from their readings at
                   \* its start
  clustering,      \* cluster_hotspots: the locals of one call
  stranded,        \* history: hotspots stored by an earlier cycle whose
                   \* cluster stage failed
  execute_count,   \* session.execute calls made by this cycle's deduplicate
  weather_client,  \* WeatherClient: its _cache, the get_weather_context
                   \* calls of a batch and the provider calls issued
  alerting         \* AlertDispatcher: the alert configuration, the rows of
                   \* alerts_sent and of fire_events, the event handed over

vars == <<pc, dispatcher, run_id, raw_hotspots, new_hotspots, enriched, events,
          errors, stage_failures, record, semaphore, unit, lookups,
          results, db_hotspots, db_events, session_events, db_runs, calls,
          raised, fetching, firms_failed, faults_left, scoring_input,
          signals, breakdown, severity_pair,
          scheduler, clocks, clustering, stranded,
          execute_count, weather_client, alerting>>

Collaborators ==
  {"fetch_all_sources", "deduplicate", "store_hotspots", "get_weather_context",
   "get_road_context", "cluster_hotspots", "classify", "persist_intent",
   "dispatch", "save_pipeline_run"}

\* PipelineRunRecord(id=run_id, started_at=...) with the dataclass defaults
NewRecord(id) ==
  [id |-> id, status |-> SUCCESS, hotspots_fetched |-> 0, new_hotspots |-> 0,
   events_created |-> 0, events_updated |-> 0, alerts_sent |-> 0,
   errors |-> <<>>, started_at |-> 0, completed_at |-> <<>>,
   duration_ms |-> <<>>]

\* record.completed_at = datetime.utcnow() and
\* record.duration_ms = int((time.monotonic() - start_mono) * 1000)
Completed(rec) ==
  [rec EXCEPT !.completed_at = <<clocks.utcnow>>,
              !.duration_ms = <<clocks.monotonic_ms>>]

\* a system clock that moved forward while the cycle ran
SteadyClocks == [utcnow |-> 1, monotonic_ms |-> 1]

\* EnrichedHotspot(hotspot=hs) with the dataclass defaults
Unenriched(hs) == [hotspot |-> hs, weather |-> NoneVal, road |-> NoneVal]

\* the store a cycle starts from: empty, or what an earlier successful cycle
\* over the batch `prior` left behind
PriorStore(prior) ==
  LET stored == IF UniqueViolation(prior, {}) THEN {} ELSE store_hotspots(prior, {})
      wrapped == [i \in 1..Len(prior) |-> Unenriched(prior[i])]
  IN [hotspots |-> stored,
      events |-> IF stored = {} THEN <<>> ELSE cluster_hotspots(wrapped, <<>>).rows]

InitCycle ==
  /\ pc = "ingest"
  /\ dispatcher \in BOOLEAN
  /\ run_id = 1
  /\ raw_hotspots = <<>>
  /\ new_hotspots = <<>>
  /\ enriched = <<>>
  /\ events = <<>>
  /\ errors = <<>>
  /\ stage_failures = {}
  /\ record = NewRecord(1)
  /\ semaphore = 0
  /\ unit = <<>>
  /\ results = <<>>
  /\ lookups = <<>>
  /\ scoring_input = <<>>
  /\ signals = <<>>
  /\ breakdown = <<>>
  /\ severity_pair = <<>>
  /\ scheduler = <<>>
  /\ clustering = <<>>
  /\ stranded = {}
  /\ execute_count = 0
  /\ weather_client = <<>>
  /\ alerting = <<>>
  /\ db_runs = <<>>
  /\ calls = [c \in Collaborators |-> 0]
  /\ raised = {}
  /\ fetching = <<>>
  /\ firms_failed = 0

Init ==
  /\ InitCycle
  /\ clocks = SteadyClocks
  /\ faults_left = MaxLookupFaults
  /\ \E prior \in SeqsUpTo(HotspotUniverse, MaxPrior) :
       /\ db_hotspots = PriorStore(prior).hotspots
       /\ db_events = PriorStore(prior).events
       /\ session_events = PriorStore(prior).events

Called(c) == calls' = [calls EXCEPT ![c] = @ + 1]

\* variant: _save_pipeline_run without its try/except
CaughtMut ==
  {"fetch_all_sources", "deduplicate", "store_hotspots", "commit_hotspots",
   "_enrich_batch", "cluster_hotspots", "commit_events", "classify",
   "persist_intent", "dispatch"}

\* the awaited calls of run_cycle that sit inside a try/except Exception
\* (lines 123-131, 149-164, 186-207, 218-239, 249-287, 297-310, 424-441)
Caught ==
  {"fetch_all_sources", "deduplicate", "store_hotspots", "commit_hotspots",
   "_enrich_batch", "cluster_hotspots", "commit_events", "classify",
   "persist_intent", "dispatch", "save_pipeline_run"}

\* where run_cycle continues after `point` raised: in the handler of the
\* enclosing try, whose code leads to `handler_pc`, or out of run_cycle
AfterRaise(point, handler_pc) ==
  IF point \in Caught THEN handler_pc ELSE "propagated"

----------------------------------------------------------------------------
(* Stage 1: INGEST (pipeline.py 123-144) *)

\* run_cycle awaits fetch_all_sources, which starts one fetch_hotspots per
\* source with asyncio.gather
IngestStart ==
  /\ pc = "ingest"
  /\ fetching' = [i \in 1..Len(sources) |-> Pending]
  /\ Called("fetch_all_sources")
  /\ pc' = "fetching"
  /\ UNCHANGED <<dispatcher, run_id, raw_hotspots, new_hotspots, enriched,
                 events, errors, stage_failures, record, semaphore, unit,
                 lookups, results, db_hotspots, db_events, session_events,
                 db_runs, raised, firms_failed, faults_left, scoring_input,
                 signals, breakdown, severity_pair, scheduler, clocks,
                 clustering, stranded, execute_count, weather_client,
                 alerting>>

\* the fetch_hotspots of source i finishes, given the server's answers and
\* the rows its CSV holds
FetchSource(i) ==
  /\ pc = "fetching"
  /\ fetching[i] = Pending
  /\ \E responses \in ServerScripts, rows \in SourceRows(sources[i]) :
       /\ fetching' = [fetching EXCEPT
                         ![i] = [done |-> TRUE,
                                 result |-> fetch_hotspots(responses, rows)]]
       /\ firms_failed' = firms_failed + (IF SourceFailed(responses) THEN 1 ELSE 0)
  /\ UNCHANGED <<pc, dispatcher, run_id, raw_hotspots, new_hotspots,
                 enriched, events, errors, stage_failures, record, semaphore,
                 unit, lookups, results, db_hotspots, db_events,
                 session_events, db_runs, calls, raised, faults_left,
                 scoring_input, signals, breakdown, severity_pair, scheduler,
                 clocks, clustering, stranded, execute_count, weather_client,
                 alerting>>

\* gather returns, fetch_all_sources combines and run_cycle records the count
Ingest ==
  /\ pc = "fetching"
  /\ \A i \in 1..Len(fetching) : fetching[i] # Pending
  /\ raw_hotspots' = CombineSources(fetching)
  /\ record' = [record EXCEPT !.hotspots_fetched = Len(raw_hotspots')]
  /\ fetching' = <<>>
  /\ pc' = "dedup"
  /\ UNCHANGED <<dispatcher, run_id, new_hotspots, enriched, events, errors,
                 stage_failures, semaphore, unit, lookups, results,
                 db_hotspots, db_events, session_events, db_runs, calls,
                 raised, firms_failed, faults_left, scoring_input, signals,
                 breakdown, severity_pair, scheduler, clocks, clustering,
                 stranded, execute_count, weather_client, alerting>>

\* variant: the early return of lines 138-144 is missing
IngestRaiseMut ==
  /\ pc = "ingest"
  /\ Called("fetch_all_sources")
  /\ raised' = raised \cup {"fetch_all_sources"}
  /\ errors' = Append(errors, "Stage 1 INGEST failed")
  /\ stage_failures' = stage_failures \cup {"ingest"}
  /\ pc' = "dedup"
  /\ UNCHANGED <<dispatcher, run_id, raw_hotspots, new_hotspots, enriched,
                 events, record, semaphore, unit, lookups, results,
                 db_hotspots, db_events, session_events, db_runs, fetching,
                 firms_failed, faults_left, scoring_input, signals,
                 breakdown, severity_pair, scheduler, clocks, clustering,
                 stranded, execute_count, weather_client, alerting>>

\* fetch_all_sources raises as a whole (lines 131-144)
IngestRaise ==
  /\ pc = "ingest"
  /\ Called("fetch_all_sources")
  /\ raised' = raised \cup {"fetch_all_sources"}
  /\ errors' = Append(errors, "Stage 1 INGEST failed")
  /\ stage_failures' = stage_failures \cup {"ingest"}
  /\ record' = Completed([record EXCEPT !.status = FAILED, !.errors = errors'])
  /\ pc' = AfterRaise("fetch_all_sources", "save")
  /\ UNCHANGED <<dispatcher, run_id, raw_hotspots, new_hotspots, enriched,
                 events, semaphore, unit, lookups, results, db_hotspots,
                 db_events, session_events, db_runs, fetching, firms_failed,
                 faults_left, scoring_input, signals, breakdown,
                 severity_pair, scheduler, clocks, clustering, stranded,
                 execute_count, weather_client, alerting>>

----------------------------------------------------------------------------
(* Stage 2: DEDUPLICATE and store (pipeline.py 149-181) *)

\* the early return of lines 171-181, taken after a dedup failure
DedupFailed(point) ==
  /\ raised' = raised \cup {point}
  /\ errors' = Append(errors, "Stage 2 DEDUP failed")
  /\ stage_failures' = stage_failures \cup {"dedup"}
  /\ pc' = AfterRaise(point, "save")

\* deduplicate raises: only a non-empty batch reaches the store query
DedupRaise ==
  /\ pc = "dedup"
  /\ raw_hotspots # <<>>
  /\ Called("deduplicate")
  /\ \E q \in 0..deduplicate_executes(raw_hotspots) :
       execute_count' = execute_count + q
  /\ DedupFailed("deduplicate")
  /\ record' = Completed([record EXCEPT !.status = FAILED, !.errors = errors'])
  /\ UNCHANGED <<dispatcher, run_id, raw_hotspots, new_hotspots, enriched,
                 events, semaphore, unit, lookups, results, db_hotspots,
                 db_events, session_events, db_runs, fetching, firms_failed,
                 faults_left, scoring_input, signals, breakdown,
                 severity_pair, scheduler, clocks, clustering, stranded,
                 weather_client, alerting>>

DedupNothingNew ==
  /\ pc = "dedup"
  /\ deduplicate(raw_hotspots, db_hotspots) = <<>>
  /\ Called("deduplicate")
  /\ execute_count' = execute_count + deduplicate_executes(raw_hotspots)
  /\ new_hotspots' = <<>>
  /\ record' = Completed([record EXCEPT !.new_hotspots = 0, !.status = SUCCESS,
                              !.errors = errors])
  /\ pc' = "save"
  /\ UNCHANGED <<dispatcher, run_id, raw_hotspots, enriched, events, errors,
                 stage_failures, semaphore, unit, lookups, results,
                 db_hotspots, db_events, session_events, db_runs, raised,
                 fetching, firms_failed, faults_left, scoring_input, signals,
                 breakdown, severity_pair, scheduler, clocks, clustering,
                 stranded, weather_client, alerting>>

\* variant: the early return is taken only when no hotspot is new
DedupStoreRaiseMut ==
  /\ pc = "dedup"
  /\ LET new == deduplicate(raw_hotspots, db_hotspots) IN
     /\ new # <<>>
     /\ new_hotspots' = new
     /\ \E point \in {"store_hotspots", "commit_hotspots"} :
          /\ UniqueViolation(new, db_hotspots) => point = "store_hotspots"
          /\ raised' = raised \cup {point}
     /\ errors' = Append(errors, "Stage 2 DEDUP failed")
     /\ stage_failures' = stage_failures \cup {"dedup"}
     /\ record' = [record EXCEPT !.new_hotspots = Len(new)]
  /\ calls' = [calls EXCEPT !["deduplicate"] = @ + 1, !["store_hotspots"] = @ + 1]
  /\ execute_count' = execute_count + deduplicate_executes(raw_hotspots)
  /\ pc' = "enrich"
  /\ UNCHANGED <<dispatcher, run_id, raw_hotspots, enriched, events,
                 semaphore, unit, lookups, results, db_hotspots, db_events,
                 session_events, db_runs, fetching, firms_failed,
                 faults_left, scoring_input, signals, breakdown,
                 severity_pair, scheduler, clocks, clustering, stranded,
                 weather_client, alerting>>

\* store_hotspots (its flush) or the commit raises: nothing is committed
DedupStoreRaise ==
  /\ pc = "dedup"
  /\ LET new == deduplicate(raw_hotspots, db_hotspots) IN
     /\ new # <<>>
     /\ new_hotspots' = new
     /\ \E point \in {"store_hotspots", "commit_hotspots"} :
          /\ UniqueViolation(new, db_hotspots) => point = "store_hotspots"
          /\ DedupFailed(point)
     /\ record' = Completed([record EXCEPT !.new_hotspots = Len(new), !.status = FAILED,
                                 !.errors = errors'])
  /\ calls' = [calls EXCEPT !["deduplicate"] = @ + 1, !["store_hotspots"] = @ + 1]
  /\ execute_count' = execute_count + deduplicate_executes(raw_hotspots)
  /\ UNCHANGED <<dispatcher, run_id, raw_hotspots, enriched, events,
                 semaphore, unit, lookups, results, db_hotspots, db_events,
                 session_events, db_runs, fetching, firms_failed,
                 faults_left, scoring_input, signals, breakdown,
                 severity_pair, scheduler, clocks, clustering, stranded,
                 weather_client, alerting>>

DedupStore ==
  /\ pc = "dedup"
  /\ LET new == deduplicate(raw_hotspots, db_hotspots) IN
     /\ new # <<>>
     /\ ~UniqueViolation(new, db_hotspots)
     /\ new_hotspots' = new
     /\ record' = [record EXCEPT !.new_hotspots = Len(new)]
     /\ db_hotspots' = store_hotspots(new, db_hotspots)
  /\ calls' = [calls EXCEPT !["deduplicate"] = @ + 1, !["store_hotspots"] = @ + 1]
  /\ execute_count' = execute_count + deduplicate_executes(raw_hotspots)
  /\ pc' = "enrich"
  /\ UNCHANGED <<dispatcher, run_id, raw_hotspots, enriched, events, errors,
                 stage_failures, semaphore, unit, lookups, results,
                 db_events, session_events, db_runs, raised, fetching,
                 firms_failed, faults_left, scoring_input, signals,
                 breakdown, severity_pair, scheduler, clocks, clustering,
                 stranded, weather_client, alerting>>

----------------------------------------------------------------------------
(* Stage 3: ENRICH (pipeline.py 186-213, 351-416) *)

LookupOutcomes == {"ok", "none", "raise"}

\* line 378-379: a lookup that raised yields None, any other result is kept
ContextOf(outcome, ctx) ==
  IF outcome = "raise" THEN NoneVal
  ELSE IF outcome = "none" THEN NoneVal ELSE ctx

\* variant: the lookups are gathered without return_exceptions, so one
\* lookup's exception discards the other's result
_enrich_hotspotMut(hs, weather_result, road_result) ==
  IF weather_result = "raise" \/ road_result = "raise"
  THEN [hotspot |-> hs, weather |-> NoneVal, road |-> NoneVal]
  ELSE [hotspot |-> hs,
        weather |-> IF weather_result = "none" THEN NoneVal ELSE "WeatherContext",
        road |-> IF road_result = "none" THEN NoneVal ELSE "RoadContext"]

\* _enrich_hotspot: both lookups gathered with return_exceptions=True
_enrich_hotspot(hs, weather_result, road_result) ==
  [hotspot |-> hs,
   weather |-> ContextOf(weather_result, "WeatherContext"),
   road |-> ContextOf(road_result, "RoadContext")]

Absent(outcome) == IF outcome = "ok" THEN 0 ELSE 1

\* _enrich_batch is entered: the semaphore is created and one task per
\* hotspot is handed to gather
EnrichStart ==
  /\ pc = "enrich"
  /\ semaphore' = _ENRICHMENT_CONCURRENCY
  /\ unit' = [i \in 1..Len(new_hotspots) |-> "waiting"]
  /\ results' = [i \in 1..Len(new_hotspots) |-> <<>>]
  /\ lookups' = [i \in 1..Len(new_hotspots) |-> <<>>]
  /\ pc' = "enriching"
  /\ UNCHANGED <<dispatcher, run_id, raw_hotspots, new_hotspots, enriched,
                 events, errors, stage_failures, record, db_hotspots,
                 db_events, session_events, db_runs, calls, raised, fetching,
                 firms_failed, faults_left, scoring_input, signals,
                 breakdown, severity_pair, scheduler, clocks, clustering,
                 stranded, execute_count, weather_client, alerting>>

\* variant: the tasks do not go through the semaphore
CanAcquireMut(sem) == TRUE

\* Semaphore.acquire returns at once only while a slot is free
CanAcquire(sem) == sem > 0

\* _limited_enrich enters `async with semaphore` (waiters are served in
\* order) and starts both lookups of its hotspot
Acquire(i) ==
  /\ pc = "enriching"
  /\ unit[i] = "waiting"
  /\ \A j \in 1..(i - 1) : unit[j] # "waiting"
  /\ CanAcquire(semaphore)
  /\ semaphore' = semaphore - 1
  /\ unit' = [unit EXCEPT ![i] = "inflight"]
  /\ calls' = [calls EXCEPT !["get_weather_context"] = @ + 1,
                            !["get_road_context"] = @ + 1]
  /\ UNCHANGED <<pc, dispatcher, run_id, raw_hotspots, new_hotspots,
                 enriched, events, errors, stage_failures, record, lookups,
                 results, db_hotspots, db_events, session_events, db_runs,
                 raised, fetching, firms_failed, faults_left, scoring_input,
                 signals, breakdown, severity_pair, scheduler, clocks,
                 clustering, stranded, execute_count, weather_client,
                 alerting>>

\* variant: results are collected in completion order
PlaceResultMut(res, i, eh) ==
  LET k == MinOf({j \in 1..Len(res) : res[j] = <<>>})
  IN [res EXCEPT ![k] = <<eh>>]

\* asyncio.gather keeps each task's result at the task's input position
\* (a slot is <<>> until its task returns)
PlaceResult(res, i, eh) == [res EXCEPT ![i] = <<eh>>]

\* both lookups of unit i have answered: _enrich_hotspot returns and the
\* semaphore is released
UnitComplete(i) ==
  /\ pc = "enriching"
  /\ unit[i] = "inflight"
  /\ \E w \in LookupOutcomes, r \in LookupOutcomes :
       /\ Absent(w) + Absent(r) <= faults_left
       /\ faults_left' = faults_left - (Absent(w) + Absent(r))
       /\ lookups' = [lookups EXCEPT ![i] = <<[weather |-> w, road |-> r]>>]
       /\ results' = PlaceResult(results, i, _enrich_hotspot(new_hotspots[i], w, r))
  /\ semaphore' = semaphore + 1
  /\ unit' = [unit EXCEPT ![i] = "done"]
  /\ UNCHANGED <<pc, dispatcher, run_id, raw_hotspots, new_hotspots,
                 enriched, events, errors, stage_failures, record,
                 db_hotspots, db_events, session_events, db_runs, calls,
                 raised, fetching, firms_failed, scoring_input, signals,
                 breakdown, severity_pair, scheduler, clocks, clustering,
                 stranded, execute_count, weather_client, alerting>>

\* lines 189-206: the coverage check after _enrich_batch returned
EnrichGather ==
  /\ pc = "enriching"
  /\ \A i \in 1..Len(unit) : unit[i] = "done"
  /\ enriched' = [i \in 1..Len(results) |-> results[i][1]]
  /\ LET weather_ok == Cardinality({i \in 1..Len(enriched') :
                                      enriched'[i].weather # NoneVal})
         road_ok == Cardinality({i \in 1..Len(enriched') :
                                   enriched'[i].road # NoneVal})
     IN IF weather_ok < Len(enriched') \/ road_ok < Len(enriched')
        THEN /\ errors' = Append(errors, "Stage 3 ENRICH partial")
             /\ stage_failures' = stage_failures \cup {"enrich_partial"}
        ELSE UNCHANGED <<errors, stage_failures>>
  /\ pc' = "cluster"
  /\ UNCHANGED <<dispatcher, run_id, raw_hotspots, new_hotspots, events,
                 record, semaphore, unit, lookups, results, db_hotspots,
                 db_events, session_events, db_runs, calls, raised, fetching,
                 firms_failed, faults_left, scoring_input, signals,
                 breakdown, severity_pair, scheduler, clocks, clustering,
                 stranded, execute_count, weather_client, alerting>>

\* variant: no unenriched wrappers are synthesized
EnrichRaiseMut ==
  /\ pc = "enrich"
  /\ raised' = raised \cup {"_enrich_batch"}
  /\ errors' = Append(errors, "Stage 3 ENRICH failed")
  /\ stage_failures' = stage_failures \cup {"enrich"}
  /\ pc' = AfterRaise("_enrich_batch", "cluster")
  /\ UNCHANGED <<dispatcher, run_id, raw_hotspots, new_hotspots, enriched,
                 events, record, semaphore, unit, lookups, results,
                 db_hotspots, db_events, session_events, db_runs, calls,
                 fetching, firms_failed, faults_left, scoring_input, signals,
                 breakdown, severity_pair, scheduler, clocks, clustering,
                 stranded, execute_count, weather_client, alerting>>

\* lines 207-213: _enrich_batch raises as a whole
EnrichRaise ==
  /\ pc = "enrich"
  /\ raised' = raised \cup {"_enrich_batch"}
  /\ errors' = Append(errors, "Stage 3 ENRICH failed")
  /\ stage_failures' = stage_failures \cup {"enrich"}
  /\ enriched' = [i \in 1..Len(new_hotspots) |-> Unenriched(new_hotspots[i])]
  /\ pc' = AfterRaise("_enrich_batch", "cluster")
  /\ UNCHANGED <<dispatcher, run_id, raw_hotspots, new_hotspots, events,
                 record, semaphore, unit, lookups, results, db_hotspots,
                 db_events, session_events, db_runs, calls, fetching,
                 firms_failed, faults_left, scoring_input, signals,
                 breakdown, severity_pair, scheduler, clocks, clustering,
                 stranded, execute_count, weather_client, alerting>>

----------------------------------------------------------------------------
(* Stage 4: CLUSTER (pipeline.py 218-243) *)

\* lines 224-228: events all of whose members are hotspots of this cycle
CountNewEvents(evs, enr) ==
  Cardinality({i \in 1..Len(evs) :
     Len(evs[i].hotspots) =
       Len(SelectSeq(evs[i].hotspots, LAMBDA h : h \in Range(enr)))})

ClusterFailed(point) ==
  /\ raised' = raised \cup {point}
  /\ errors' = Append(errors, "Stage 4 CLUSTER failed")
  /\ stage_failures' = stage_failures \cup {"cluster"}
  /\ pc' = AfterRaise(point, "classify")

\* variant: what the session flushed stays in the store when the session
\* is closed
CloseSessionMut(committed, flushed) == flushed

\* leaving `async with self._session_factory() as session` closes the
\* session, which rolls back whatever was flushed and not committed
CloseSession(committed, flushed) == committed

Cluster ==
  /\ pc = "cluster"
  /\ LET res == cluster_hotspots(enriched, db_events) IN
     /\ events' = res.events
     /\ session_events' = res.rows
     /\ db_events' = res.rows
     /\ record' = [record EXCEPT
                     !.events_created = CountNewEvents(res.events, enriched),
                     !.events_updated =
                        Len(res.events) - CountNewEvents(res.events, enriched)]
  /\ Called("cluster_hotspots")
  /\ pc' = "classify"
  /\ UNCHANGED <<dispatcher, run_id, raw_hotspots, new_hotspots, enriched,
                 errors, stage_failures, semaphore, unit, lookups, results,
                 db_hotspots, db_runs, raised, fetching, firms_failed,
                 faults_left, scoring_input, signals, breakdown,
                 severity_pair, scheduler, clocks, clustering, stranded,
                 execute_count, weather_client, alerting>>

\* cluster_hotspots raises (a query or a flush fails): `events` stays empty
\* and the session is closed without commit
ClusterRaise ==
  /\ pc = "cluster"
  /\ Called("cluster_hotspots")
  /\ ClusterFailed("cluster_hotspots")
  /\ session_events' = db_events
  /\ db_events' = CloseSession(db_events, db_events)
  /\ UNCHANGED <<dispatcher, run_id, raw_hotspots, new_hotspots, enriched,
                 events, record, semaphore, unit, lookups, results,
                 db_hotspots, db_runs, fetching, firms_failed, faults_left,
                 scoring_input, signals, breakdown, severity_pair, scheduler,
                 clocks, clustering, stranded, execute_count, weather_client,
                 alerting>>

\* cluster_hotspots raises in its build loop after k clusters were flushed
\* (a later flush fails): `events` stays empty, the session is closed
\* without commit
ClusterFlushRaise ==
  /\ pc = "cluster"
  /\ \E k \in 1..(Len(ClustersToBuild(enriched, db_events)) - 1) :
       /\ session_events' = FlushedRows(enriched, db_events, k)
       /\ db_events' = CloseSession(db_events, session_events')
  /\ Called("cluster_hotspots")
  /\ ClusterFailed("cluster_hotspots")
  /\ UNCHANGED <<dispatcher, run_id, raw_hotspots, new_hotspots, enriched,
                 events, record, semaphore, unit, lookups, results,
                 db_hotspots, db_runs, fetching, firms_failed, faults_left,
                 scoring_input, signals, breakdown, severity_pair, scheduler,
                 clocks, clustering, stranded, execute_count, weather_client,
                 alerting>>

\* cluster_hotspots returns and the commit of line 221 raises: `events` is
\* assigned, nothing is committed
ClusterCommitRaise ==
  /\ pc = "cluster"
  /\ LET res == cluster_hotspots(enriched, db_events) IN
     /\ events' = res.events
     /\ session_events' = res.rows
     /\ db_events' = CloseSession(db_events, res.rows)
  /\ Called("cluster_hotspots")
  /\ ClusterFailed("commit_events")
  /\ UNCHANGED <<dispatcher, run_id, raw_hotspots, new_hotspots, enriched,
                 record, semaphore, unit, lookups, results, db_hotspots,
                 db_runs, fetching, firms_failed, faults_left, scoring_input,
                 signals, breakdown, severity_pair, scheduler, clocks,
                 clustering, stranded, execute_count, weather_client,
                 alerting>>

----------------------------------------------------------------------------
(* Stage 5: CLASSIFY (pipeline.py 248-291) *)

\* variant: the cluster failure is not consulted
ClassifyGuardMut(evs, failures) == evs # <<>>

\* the guard of line 248
ClassifyGuard(evs, failures) == evs # <<>> /\ "cluster" \notin failures

\* the breakdown the classifier attaches to an event
Breakdown(ev) == "IntentBreakdown"

\* `events` after the first k events were classified
Classified(evs, k) ==
  [i \in 1..Len(evs) |->
     IF i <= k THEN [evs[i] EXCEPT !.intent = Breakdown(evs[i])] ELSE evs[i]]

\* the UPDATE of lines 266-275 applied for every event that has an intent
PersistIntent(rows, evs) ==
  [i \in 1..Len(rows) |->
     IF \E k \in 1..Len(evs) : evs[k].id = rows[i].id /\ evs[k].intent # NoneVal
     THEN [rows[i] EXCEPT !.intent_score = "IntentBreakdown"]
     ELSE rows[i]]

Classify ==
  /\ pc = "classify"
  /\ ClassifyGuard(events, stage_failures)
  /\ events' = Classified(events, Len(events))
  /\ db_events' = PersistIntent(db_events, events')
  /\ calls' = [calls EXCEPT !["classify"] = @ + Len(events),
                            !["persist_intent"] = @ + 1]
  /\ pc' = "alert"
  /\ UNCHANGED <<dispatcher, run_id, raw_hotspots, new_hotspots, enriched,
                 errors, stage_failures, record, semaphore, unit, lookups,
                 results, db_hotspots, session_events, db_runs, raised,
                 fetching, firms_failed, faults_left, scoring_input, signals,
                 breakdown, severity_pair, scheduler, clocks, clustering,
                 stranded, execute_count, weather_client, alerting>>

\* variant: each event's intent is written and committed as soon as the
\* event is classified
ClassifyRaiseMut ==
  /\ pc = "classify"
  /\ ClassifyGuard(events, stage_failures)
  /\ \E k \in 0..Len(events) :
       /\ events' = Classified(events, k)
       /\ db_events' = PersistIntent(db_events, events')
       /\ IF k < Len(events)
          THEN /\ calls' = [calls EXCEPT !["classify"] = @ + k + 1]
               /\ raised' = raised \cup {"classify"}
               /\ pc' = AfterRaise("classify", "alert")
          ELSE /\ calls' = [calls EXCEPT !["classify"] = @ + k,
                                         !["persist_intent"] = @ + 1]
               /\ raised' = raised \cup {"persist_intent"}
               /\ pc' = AfterRaise("persist_intent", "alert")
  /\ errors' = Append(errors, "Stage 5 CLASSIFY failed")
  /\ stage_failures' = stage_failures \cup {"classify"}
  /\ UNCHANGED <<dispatcher, run_id, raw_hotspots, new_hotspots, enriched,
                 record, semaphore, unit, lookups, results, db_hotspots,
                 session_events, db_runs, fetching, firms_failed,
                 faults_left, scoring_input, signals, breakdown,
                 severity_pair, scheduler, clocks, clustering, stranded,
                 execute_count, weather_client, alerting>>

\* classify raises on event k+1, and no session is opened; or (k = number
\* of events) the persisting session raises after the UPDATEs of its first
\* j events, in an execute or (j = number of events) in the commit, and is
\* closed without commit.  The events classified keep their intent in
\* memory.
ClassifyRaise ==
  /\ pc = "classify"
  /\ ClassifyGuard(events, stage_failures)
  /\ \E k \in 0..Len(events) :
       /\ events' = Classified(events, k)
       /\ IF k < Len(events)
          THEN /\ calls' = [calls EXCEPT !["classify"] = @ + k + 1]
               /\ raised' = raised \cup {"classify"}
               /\ pc' = AfterRaise("classify", "alert")
               /\ db_events' = db_events
          ELSE /\ calls' = [calls EXCEPT !["classify"] = @ + k,
                                         !["persist_intent"] = @ + 1]
               /\ raised' = raised \cup {"persist_intent"}
               /\ pc' = AfterRaise("persist_intent", "alert")
               /\ \E j \in 0..Len(events) :
                    db_events' =
                      CloseSession(db_events,
                                   PersistIntent(db_events,
                                                 SubSeq(events', 1, j)))
  /\ errors' = Append(errors, "Stage 5 CLASSIFY failed")
  /\ stage_failures' = stage_failures \cup {"classify"}
  /\ UNCHANGED <<dispatcher, run_id, raw_hotspots, new_hotspots, enriched,
                 record, semaphore, unit, lookups, results, db_hotspots,
                 session_events, db_runs, fetching, firms_failed,
                 faults_left, scoring_input, signals, breakdown,
                 severity_pair, scheduler, clocks, clustering, stranded,
                 execute_count, weather_client, alerting>>

ClassifySkip ==
  /\ pc = "classify"
  /\ ~ClassifyGuard(events, stage_failures)
  /\ pc' = "alert"
  /\ UNCHANGED <<dispatcher, run_id, raw_hotspots, new_hotspots, enriched,
                 events, errors, stage_failures, record, semaphore, unit,
                 lookups, results, db_hotspots, db_events, session_events,
                 db_runs, calls, raised, fetching, firms_failed, faults_left,
                 scoring_input, signals, breakdown, severity_pair, scheduler,
                 clocks, clustering, stranded, execute_count, weather_client,
                 alerting>>

----------------------------------------------------------------------------
(* Stage 6: ALERT and finalize (pipeline.py 296-333) *)

\* the guard of line 296
AlertGuard(disp, evs, failures) ==
  disp /\ evs # <<>> /\ "cluster" \notin failures

\* variant: the partial-enrichment warning is not counted as a failure
FinalStatusMut(failures) ==
  IF failures \cap {"ingest", "dedup"} # {} THEN FAILED
  ELSE IF failures \ {"enrich_partial"} # {} THEN PARTIAL
  ELSE SUCCESS

\* lines 324-330
FinalStatus(failures) ==
  IF failures \cap {"ingest", "dedup"} # {} THEN FAILED
  ELSE IF failures # {} THEN PARTIAL
  ELSE SUCCESS

Alert ==
  /\ pc = "alert"
  /\ AlertGuard(dispatcher, events, stage_failures)
  /\ \E total_alerts \in 0..MaxAlerts :
       record' = Completed([record EXCEPT !.alerts_sent = total_alerts,
                                !.errors = errors,
                                !.status = FinalStatus(stage_failures)])
  /\ Called("dispatch")
  /\ pc' = "save"
  /\ UNCHANGED <<dispatcher, run_id, raw_hotspots, new_hotspots, enriched,
                 events, errors, stage_failures, semaphore, unit, lookups,
                 results, db_hotspots, db_events, session_events, db_runs,
                 raised, fetching, firms_failed, faults_left, scoring_input,
                 signals, breakdown, severity_pair, scheduler, clocks,
                 clustering, stranded, execute_count, weather_client,
                 alerting>>

AlertRaise ==
  /\ pc = "alert"
  /\ AlertGuard(dispatcher, events, stage_failures)
  /\ Called("dispatch")
  /\ raised' = raised \cup {"dispatch"}
  /\ errors' = Append(errors, "Stage 6 ALERT failed")
  /\ stage_failures' = stage_failures \cup {"alert"}
  /\ record' = Completed([record EXCEPT !.errors = errors',
                              !.status = FinalStatus(stage_failures')])
  /\ pc' = AfterRaise("dispatch", "save")
  /\ UNCHANGED <<dispatcher, run_id, raw_hotspots, new_hotspots, enriched,
                 events, semaphore, unit, lookups, results, db_hotspots,
                 db_events, session_events, db_runs, fetching, firms_failed,
                 faults_left, scoring_input, signals, breakdown,
                 severity_pair, scheduler, clocks, clustering, stranded,
                 execute_count, weather_client, alerting>>

AlertSkip ==
  /\ pc = "alert"
  /\ ~AlertGuard(dispatcher, events, stage_failures)
  /\ record' = Completed([record EXCEPT !.errors = errors,
                              !.status = FinalStatus(stage_failures)])
  /\ pc' = "save"
  /\ UNCHANGED <<dispatcher, run_id, raw_hotspots, new_hotspots, enriched,
                 events, errors, stage_failures, semaphore, unit, lookups,
                 results, db_hotspots, db_events, session_events, db_runs,
                 calls, raised, fetching, firms_failed, faults_left,
                 scoring_input, signals, breakdown, severity_pair, scheduler,
                 clocks, clustering, stranded, execute_count, weather_client,
                 alerting>>

----------------------------------------------------------------------------
(* _save_pipeline_run (pipeline.py 418-442) and the return of run_cycle *)

\* the PipelineRun row built from the record
PipelineRunRow(rec) ==
  [id |-> rec.id, status |-> rec.status,
   hotspots_fetched |-> rec.hotspots_fetched, new_hotspots |-> rec.new_hotspots,
   events_created |-> rec.events_created, events_updated |-> rec.events_updated,
   alerts_sent |-> rec.alerts_sent,
   errors |-> IF rec.errors # <<>> THEN rec.errors ELSE NoneVal]

\* variant: the row is built but never added to the session
SaveRunMut ==
  /\ pc = "save"
  /\ Called("save_pipeline_run")
  /\ pc' = "done"
  /\ UNCHANGED <<dispatcher, run_id, raw_hotspots, new_hotspots, enriched,
                 events, errors, stage_failures, record, semaphore, unit,
                 lookups, results, db_hotspots, db_events, session_events,
                 db_runs, raised, fetching, firms_failed, faults_left,
                 scoring_input, signals, breakdown, severity_pair, scheduler,
                 clocks, clustering, stranded, execute_count, weather_client,
                 alerting>>

SaveRun ==
  /\ pc = "save"
  /\ Called("save_pipeline_run")
  /\ db_runs' = Append(db_runs, PipelineRunRow(record))
  /\ pc' = "done"
  /\ UNCHANGED <<dispatcher, run_id, raw_hotspots, new_hotspots, enriched,
                 events, errors, stage_failures, record, semaphore, unit,
                 lookups, results, db_hotspots, db_events, session_events,
                 raised, fetching, firms_failed, faults_left, scoring_input,
                 signals, breakdown, severity_pair, scheduler, clocks,
                 clustering, stranded, execute_count, weather_client,
                 alerting>>

\* the session or the commit raises: logged, swallowed, no row
SaveRunRaise ==
  /\ pc = "save"
  /\ Called("save_pipeline_run")
  /\ raised' = raised \cup {"save_pipeline_run"}
  /\ pc' = AfterRaise("save_pipeline_run", "done")
  /\ UNCHANGED <<dispatcher, run_id, raw_hotspots, new_hotspots, enriched,
                 events, errors, stage_failures, record, semaphore, unit,
                 lookups, results, db_hotspots, db_events, session_events,
                 db_runs, fetching, firms_failed, faults_left, scoring_input,
                 signals, breakdown, severity_pair, scheduler, clocks,
                 clustering, stranded, execute_count, weather_client,
                 alerting>>

----------------------------------------------------------------------------
(* Specifications *)

EnrichNext ==
  \/ EnrichStart
  \/ \E i \in 1..Len(unit) : Acquire(i)
  \/ \E i \in 1..Len(unit) : UnitComplete(i)
  \/ EnrichGather
  \/ EnrichRaise

Next ==
  \/ IngestStart \/ (\E i \in 1..Len(fetching) : FetchSource(i))
  \/ Ingest \/ IngestRaise
  \/ DedupRaise \/ DedupNothingNew \/ DedupStoreRaise \/ DedupStore
  \/ EnrichNext
  \/ Cluster \/ ClusterRaise \/ ClusterFlushRaise \/ ClusterCommitRaise
  \/ Classify \/ ClassifyRaise \/ ClassifySkip
  \/ Alert \/ AlertRaise \/ AlertSkip
  \/ SaveRun \/ SaveRunRaise

Spec == Init /\ [][Next]_vars

\* the cycle that stored new hotspots runs to its end, which writes no row
\* of the hotspots table, and the next cycle's ingest returns the same batch
RefetchSameBatch ==
  /\ pc = "enrich"
  /\ run_id < MaxCycles
  /\ run_id' = run_id + 1
  /\ record' = [NewRecord(run_id + 1) EXCEPT
                  !.hotspots_fetched = Len(raw_hotspots)]
  /\ new_hotspots' = <<>>
  /\ errors' = <<>>
  /\ stage_failures' = {}
  /\ raised' = {}
  /\ execute_count' = 0
  /\ calls' = [c \in Collaborators |->
                IF c = "fetch_all_sources" THEN 1 ELSE 0]
  /\ pc' = "dedup"
  /\ UNCHANGED <<dispatcher, raw_hotspots, enriched, events, semaphore, unit,
                 lookups, results, db_hotspots, db_events, session_events,
                 db_runs, fetching, firms_failed, faults_left, scoring_input,
                 signals, breakdown, severity_pair, scheduler, clocks,
                 clustering, stranded, weather_client, alerting>>

\* deduplicate and store_hotspots on their own: a batch has been fetched
\* and is about to be deduplicated against a store
InitDedup ==
  \E parallel \in Parallels :
    \E batch \in SeqsUpTo(DedupUniverse(parallel), MaxDedupBatch),
       stored \in SUBSET DedupUniverse(parallel) :
      /\ Cardinality(stored) <= MaxStored
      /\ pc = "dedup"
      /\ dispatcher = FALSE
      /\ run_id = 1
      /\ raw_hotspots = batch
      /\ new_hotspots = <<>>
      /\ enriched = <<>>
      /\ events = <<>>
      /\ errors = <<>>
      /\ stage_failures = {}
      /\ record = [NewRecord(1) EXCEPT !.hotspots_fetched = Len(batch)]
      /\ semaphore = 0
      /\ unit = <<>>
      /\ results = <<>>
      /\ lookups = <<>>
      /\ scoring_input = <<>>
      /\ signals = <<>>
      /\ breakdown = <<>>
      /\ severity_pair = <<>>
      /\ scheduler = <<>>
      /\ clustering = <<>>
      /\ stranded = {}
      /\ execute_count = 0
      /\ weather_client = <<>>
      /\ alerting = <<>>
      /\ clocks = SteadyClocks
      /\ db_hotspots = stored
      /\ db_events = <<>>
      /\ session_events = <<>>
      /\ db_runs = <<>>
      /\ calls = [c \in Collaborators |->
                    IF c = "fetch_all_sources" THEN 1 ELSE 0]
      /\ raised = {}
      /\ fetching = <<>>
      /\ firms_failed = 0
      /\ faults_left = 0

DedupNext ==
  \/ DedupRaise \/ DedupNothingNew \/ DedupStoreRaise \/ DedupStore
  \/ RefetchSameBatch
  \/ SaveRun \/ SaveRunRaise

SpecDedup == InitDedup /\ [][DedupNext]_vars

\* _enrich_batch on its own: a batch of n distinct detections, already
\* fetched, found new and stored, is about to be enriched
BatchHotspot(i) ==
  [source |-> "VIIRS_SNPP_NRT", latitude |-> 10000 * i, longitude |-> 0,
   acq_date |-> 2, acq_time |-> 210, frp |-> 10]

InitEnrichBatch ==
  \E n \in 1..MaxBatch :
    LET batch == [i \in 1..n |-> BatchHotspot(i)] IN
    /\ pc = "enrich"
    /\ dispatcher = FALSE
    /\ run_id = 1
    /\ raw_hotspots = batch
    /\ new_hotspots = batch
    /\ enriched = <<>>
    /\ events = <<>>
    /\ errors = <<>>
    /\ stage_failures = {}
    /\ record = [NewRecord(1) EXCEPT !.hotspots_fetched = n, !.new_hotspots = n]
    /\ semaphore = 0
    /\ unit = <<>>
    /\ results = <<>>
  /\ lookups = <<>>
  /\ scoring_input = <<>>
  /\ signals = <<>>
  /\ breakdown = <<>>
  /\ severity_pair = <<>>
  /\ scheduler = <<>>
  /\ clustering = <<>>
  /\ stranded = {}
  /\ execute_count = 0
  /\ weather_client = <<>>
  /\ alerting = <<>>
  /\ clocks = SteadyClocks
    /\ db_hotspots = Range(batch)
    /\ db_events = <<>>
    /\ session_events = <<>>
    /\ db_runs = <<>>
    /\ calls = [c \in Collaborators |->
                 IF c \in {"fetch_all_sources", "deduplicate", "store_hotspots"}
                 THEN 1 ELSE 0]
    /\ raised = {}
    /\ fetching = <<>>
    /\ firms_failed = 0
    /\ faults_left = MaxBatchFaults

SpecEnrichBatch == InitEnrichBatch /\ [][EnrichNext]_vars

----------------------------------------------------------------------------
(* classify on its own: an event's context and history are given, the six  *)
(* signals are scored, _renormalize builds the breakdown, and classify is  *)
(* run again on an input that differs in one data source.  _renormalize is *)
(* also started on signal lists of every availability pattern.             *)

\* the values of a WeatherContext the scorers read
WeatherContexts ==
  {[has_thunderstorm |-> l.t, cape |-> l.c,
    humidity_pct |-> d.h, precipitation_mm_72h |-> d.p] :
     l \in {[t |-> FALSE, c |-> 150], [t |-> FALSE, c |-> 750],
            [t |-> FALSE, c |-> 1200], [t |-> TRUE, c |-> 150]},
     d \in {[h |-> 20, p |-> 0], [h |-> 20, p |-> 1], [h |-> 30, p |-> 1],
            [h |-> 30, p |-> 5], [h |-> 60, p |-> 15]}}

RoadContexts ==
  {[nearest_distance_m |-> d] : d \in {100, 350, 750, 1500, 3000}}

Option(S) == {<<>>} \cup {<<x>> : x \in S}

MonthsSinceLast == Option({6, 18, 30, 40})

ScoringInputs ==
  [weather : Option(WeatherContexts),
   road : Option(RoadContexts),
   utc_hour : 0..23,
   history_count : 0..MaxHistory,
   months_since_last : MonthsSinceLast,
   nearby_event_count : 0..MaxNearby]

\* the lists _renormalize can be handed: each signal either unavailable or
\* carrying a score its scorer can return
SignalLists ==
  LET lightning == {_score_lightning(w) : w \in Option(WeatherContexts)}
      road == {_score_road_proximity(r) : r \in Option(RoadContexts)}
      night == {_score_nighttime(h) : h \in 0..23} \cup {Unavailable}
      history == {_score_historical(1, m) : m \in MonthsSinceLast}
                   \cup {Unavailable}
      multi == {_score_multi_point(n) : n \in 0..MaxNearby} \cup {Unavailable}
      dry == {_score_dry_conditions(w) : w \in Option(WeatherContexts)}
  IN {<<Signal(l, lightning_absence), Signal(r, road_proximity),
        Signal(n, nighttime_ignition), Signal(h, historical_repeat),
        Signal(m, multi_point_ignition), Signal(d, dry_conditions)>> :
        l \in lightning, r \in road, n \in night, h \in history,
        m \in multi, d \in dry}

\* no cycle is running
CycleIdle ==
  /\ dispatcher = FALSE
  /\ run_id = 1
  /\ raw_hotspots = <<>>
  /\ new_hotspots = <<>>
  /\ enriched = <<>>
  /\ events = <<>>
  /\ errors = <<>>
  /\ stage_failures = {}
  /\ record = NewRecord(1)
  /\ semaphore = 0
  /\ unit = <<>>
  /\ results = <<>>
  /\ lookups = <<>>
  /\ db_hotspots = {}
  /\ db_events = <<>>
  /\ session_events = <<>>
  /\ db_runs = <<>>
  /\ calls = [c \in Collaborators |-> 0]
  /\ raised = {}
  /\ fetching = <<>>
  /\ firms_failed = 0
  /\ faults_left = 0

InitClassify ==
  /\ CycleIdle
  /\ \/ /\ pc = "score"
        /\ \E inp \in ScoringInputs : scoring_input = <<inp>>
        /\ signals = <<>>
     \/ /\ pc = "renormalize"
        /\ scoring_input = <<>>
        /\ signals \in SignalLists
  /\ breakdown = <<>>
  /\ severity_pair = <<>>
  /\ scheduler = <<>>
  /\ clustering = <<>>
  /\ stranded = {}
  /\ execute_count = 0
  /\ weather_client = <<>>
  /\ alerting = <<>>
  /\ clocks = SteadyClocks

\* classify up to the signal tuples
ScoreSignals ==
  /\ pc = "score"
  /\ signals' = SignalsOf(scoring_input[1])
  /\ pc' = "renormalize"
  /\ UNCHANGED <<dispatcher, run_id, raw_hotspots, new_hotspots, enriched,
                 events, errors, stage_failures, record, semaphore, unit,
                 lookups, results, db_hotspots, db_events, session_events,
                 db_runs, calls, raised, fetching, firms_failed, faults_left,
                 scoring_input, breakdown, severity_pair, scheduler, clocks,
                 clustering, stranded, execute_count, weather_client,
                 alerting>>

Renormalize ==
  /\ pc = "renormalize"
  /\ breakdown' = <<_renormalize(signals)>>
  /\ pc' = "classified"
  /\ UNCHANGED <<dispatcher, run_id, raw_hotspots, new_hotspots, enriched,
                 events, errors, stage_failures, record, semaphore, unit,
                 lookups, results, db_hotspots, db_events, session_events,
                 db_runs, calls, raised, fetching, firms_failed, faults_left,
                 scoring_input, signals, severity_pair, scheduler, clocks,
                 clustering, stranded, execute_count, weather_client,
                 alerting>>

\* classify run on the same event with its weather context there where it
\* was absent, or absent where it was there
ClassifyWeatherToggled ==
  /\ pc = "classified"
  /\ scoring_input # <<>>
  /\ \E w \in Option(WeatherContexts) :
       /\ (w = <<>>) # (scoring_input[1].weather = <<>>)
       /\ scoring_input' = <<[scoring_input[1] EXCEPT !.weather = w]>>
  /\ signals' = SignalsOf(scoring_input'[1])
  /\ breakdown' = <<_renormalize(signals')>>
  /\ UNCHANGED <<pc, dispatcher, run_id, raw_hotspots, new_hotspots,
                 enriched, events, errors, stage_failures, record, semaphore,
                 unit, lookups, results, db_hotspots, db_events,
                 session_events, db_runs, calls, raised, fetching,
                 firms_failed, faults_left, severity_pair, scheduler, clocks,
                 clustering, stranded, execute_count, weather_client,
                 alerting>>

\* the same for its road context
ClassifyRoadToggled ==
  /\ pc = "classified"
  /\ scoring_input # <<>>
  /\ \E r \in Option(RoadContexts) :
       /\ (r = <<>>) # (scoring_input[1].road = <<>>)
       /\ scoring_input' = <<[scoring_input[1] EXCEPT !.road = r]>>
  /\ signals' = SignalsOf(scoring_input'[1])
  /\ breakdown' = <<_renormalize(signals')>>
  /\ UNCHANGED <<pc, dispatcher, run_id, raw_hotspots, new_hotspots,
                 enriched, events, errors, stage_failures, record, semaphore,
                 unit, lookups, results, db_hotspots, db_events,
                 session_events, db_runs, calls, raised, fetching,
                 firms_failed, faults_left, severity_pair, scheduler, clocks,
                 clustering, stranded, execute_count, weather_client,
                 alerting>>

ClassifyNext ==
  \/ ScoreSignals
  \/ Renormalize
  \/ ClassifyWeatherToggled
  \/ ClassifyRoadToggled

SpecClassify == InitClassify /\ [][ClassifyNext]_vars

----------------------------------------------------------------------------
(* calculate_severity on its own: two hotspot counts, the first at most    *)
(* the second, and one peak FRP are given; each call is made once.         *)

\* peak FRP values in MW, on both sides of critical_frp_threshold_mw
PeakFrps == {20, 50, 80, 100, 101, 150}

InitSeverity ==
  /\ CycleIdle
  /\ pc = "severity"
  /\ scoring_input = <<>>
  /\ signals = <<>>
  /\ breakdown = <<>>
  /\ scheduler = <<>>
  /\ clustering = <<>>
  /\ stranded = {}
  /\ execute_count = 0
  /\ weather_client = <<>>
  /\ alerting = <<>>
  /\ clocks = SteadyClocks
  /\ \E c1 \in 1..MaxHotspotCount, c2 \in 1..MaxHotspotCount, frp \in PeakFrps :
       /\ c1 <= c2
       /\ severity_pair = <<[c1 |-> c1, c2 |-> c2, max_frp |-> frp,
                             first |-> <<>>, second |-> <<>>]>>

SeverityOfFirst ==
  /\ pc = "severity"
  /\ severity_pair[1].first = <<>>
  /\ severity_pair' =
       <<[severity_pair[1] EXCEPT !.first =
            <<calculate_severity(severity_pair[1].c1, severity_pair[1].max_frp)>>]>>
  /\ UNCHANGED <<pc, dispatcher, run_id, raw_hotspots, new_hotspots,
                 enriched, events, errors, stage_failures, record, semaphore,
                 unit, lookups, results, db_hotspots, db_events,
                 session_events, db_runs, calls, raised, fetching,
                 firms_failed, faults_left, scoring_input, signals,
                 breakdown, scheduler, clocks, clustering, stranded,
                 execute_count, weather_client, alerting>>

SeverityOfSecond ==
  /\ pc = "severity"
  /\ severity_pair[1].second = <<>>
  /\ severity_pair' =
       <<[severity_pair[1] EXCEPT !.second =
            <<calculate_severity(severity_pair[1].c2, severity_pair[1].max_frp)>>]>>
  /\ UNCHANGED <<pc, dispatcher, run_id, raw_hotspots, new_hotspots,
                 enriched, events, errors, stage_failures, record, semaphore,
                 unit, lookups, results, db_hotspots, db_events,
                 session_events, db_runs, calls, raised, fetching,
                 firms_failed, faults_left, scoring_input, signals,
                 breakdown, scheduler, clocks, clustering, stranded,
                 execute_count, weather_client, alerting>>

SeverityNext == SeverityOfFirst \/ SeverityOfSecond

SpecSeverity == InitSeverity /\ [][SeverityNext]_vars

----------------------------------------------------------------------------
(* main.py and core/scheduler.py: scheduled operation.  async_main starts  *)
(* the scheduler and at once awaits a first run_cycle of its own; every    *)
(* interval the scheduler triggers the job, which runs run_cycle unless    *)
(* max_instances instances of the job are already running.                 *)

max_instances == 1

\* the stages a cycle passes through; a position 1..Len(CycleStages) is a
\* cycle in progress
CycleStages ==
  <<"ingest", "dedup", "enrich", "cluster", "classify", "alert", "save">>

InProgress(position) == position \in 1..Len(CycleStages)

InitScheduler ==
  /\ CycleIdle
  /\ pc = "scheduled"
  /\ scoring_input = <<>>
  /\ signals = <<>>
  /\ breakdown = <<>>
  /\ severity_pair = <<>>
  /\ clocks = SteadyClocks
  /\ clustering = <<>>
  /\ stranded = {}
  /\ execute_count = 0
  /\ weather_client = <<>>
  /\ alerting = <<>>
  /\ scheduler = <<[main |-> "start", initial_cycle |-> 0, job_cycle |-> 0,
                    instances |-> 0, fired |-> 0, skipped |-> 0]>>

\* scheduler.start() followed by `await pipeline.run_cycle()`
StartScheduler ==
  /\ pc = "scheduled"
  /\ scheduler[1].main = "start"
  /\ scheduler' = <<[scheduler[1] EXCEPT !.main = "initial",
                                         !.initial_cycle = 1]>>
  /\ UNCHANGED <<pc, dispatcher, run_id, raw_hotspots, new_hotspots,
                 enriched, events, errors, stage_failures, record, semaphore,
                 unit, lookups, results, db_hotspots, db_events,
                 session_events, db_runs, calls, raised, fetching,
                 firms_failed, faults_left, scoring_input, signals,
                 breakdown, severity_pair, clocks, clustering, stranded,
                 execute_count, weather_client, alerting>>

\* the cycle async_main awaits reaches its next stage, or returns
InitialCycleStep ==
  /\ pc = "scheduled"
  /\ InProgress(scheduler[1].initial_cycle)
  /\ scheduler' =
       <<[scheduler[1] EXCEPT
            !.initial_cycle = @ + 1,
            !.main = IF scheduler[1].initial_cycle = Len(CycleStages)
                     THEN "waiting" ELSE @]>>
  /\ UNCHANGED <<pc, dispatcher, run_id, raw_hotspots, new_hotspots,
                 enriched, events, errors, stage_failures, record, semaphore,
                 unit, lookups, results, db_hotspots, db_events,
                 session_events, db_runs, calls, raised, fetching,
                 firms_failed, faults_left, scoring_input, signals,
                 breakdown, severity_pair, clocks, clustering, stranded,
                 execute_count, weather_client, alerting>>

\* the interval elapses: the job is submitted unless max_instances
\* instances of it are running, in which case the run is skipped
Trigger ==
  /\ pc = "scheduled"
  /\ scheduler[1].main \in {"initial", "waiting"}
  /\ scheduler[1].fired < MaxTriggers
  /\ scheduler' =
       <<IF scheduler[1].instances >= max_instances
         THEN [scheduler[1] EXCEPT !.fired = @ + 1, !.skipped = @ + 1]
         ELSE [scheduler[1] EXCEPT !.fired = @ + 1, !.instances = @ + 1,
                                   !.job_cycle = 1]>>
  /\ UNCHANGED <<pc, dispatcher, run_id, raw_hotspots, new_hotspots,
                 enriched, events, errors, stage_failures, record, semaphore,
                 unit, lookups, results, db_hotspots, db_events,
                 session_events, db_runs, calls, raised, fetching,
                 firms_failed, faults_left, scoring_input, signals,
                 breakdown, severity_pair, clocks, clustering, stranded,
                 execute_count, weather_client, alerting>>

\* the cycle the job runs reaches its next stage, or returns and releases
\* its instance
JobCycleStep ==
  /\ pc = "scheduled"
  /\ InProgress(scheduler[1].job_cycle)
  /\ scheduler' =
       <<IF scheduler[1].job_cycle = Len(CycleStages)
         THEN [scheduler[1] EXCEPT !.job_cycle = 0, !.instances = @ - 1]
         ELSE [scheduler[1] EXCEPT !.job_cycle = @ + 1]>>
  /\ UNCHANGED <<pc, dispatcher, run_id, raw_hotspots, new_hotspots,
                 enriched, events, errors, stage_failures, record, semaphore,
                 unit, lookups, results, db_hotspots, db_events,
                 session_events, db_runs, calls, raised, fetching,
                 firms_failed, faults_left, scoring_input, signals,
                 breakdown, severity_pair, clocks, clustering, stranded,
                 execute_count, weather_client, alerting>>

\* a signal sets shutdown_event: no further trigger fires
Shutdown ==
  /\ pc = "scheduled"
  /\ scheduler[1].main = "waiting"
  /\ scheduler' = <<[scheduler[1] EXCEPT !.main = "stopped"]>>
  /\ UNCHANGED <<pc, dispatcher, run_id, raw_hotspots, new_hotspots,
                 enriched, events, errors, stage_failures, record, semaphore,
                 unit, lookups, results, db_hotspots, db_events,
                 session_events, db_runs, calls, raised, fetching,
                 firms_failed, faults_left, scoring_input, signals,
                 breakdown, severity_pair, clocks, clustering, stranded,
                 execute_count, weather_client, alerting>>

SchedulerNext ==
  \/ StartScheduler
  \/ InitialCycleStep
  \/ Trigger
  \/ JobCycleStep
  \/ Shutdown

SpecScheduler == InitScheduler /\ [][SchedulerNext]_vars

----------------------------------------------------------------------------
(* run_cycle and its two clocks: a first cycle over an empty store, with   *)
(* every reading the clocks can give when the cycle completes.             *)
(* datetime.utcnow() reads the system clock, which can be set back while   *)
(* the cycle runs; time.monotonic() cannot go backwards.                   *)

ClockReadings == [utcnow : {-1, 0, 1}, monotonic_ms : {0, 1}]

InitTiming ==
  /\ InitCycle
  /\ clocks \in ClockReadings
  /\ faults_left = MaxLookupFaults
  /\ db_hotspots = {}
  /\ db_events = <<>>
  /\ session_events = <<>>

SpecTiming == InitTiming /\ [][Next]_vars

----------------------------------------------------------------------------
(* processing/clustering.py: one call of cluster_hotspots, one hotspot of  *)
(* the sorted batch per step                                               *)

\* detections around one fire front: positions north of the equator in
\* meters, minutes of the day
ClusterLatitudes == {0, 1000, 2400, 6000}

ClusterTimes == {0, 300}

ClusterHotspots ==
  { [source |-> "VIIRS_SNPP_NRT", latitude |-> la, longitude |-> 0,
     acq_date |-> 1, acq_time |-> t, frp |-> 10] :
      la \in ClusterLatitudes, t \in ClusterTimes }

\* centres of the active fire events the store holds
StoredCentres == {0, 2000}

\* a FireEventModel row an earlier cycle wrote from one detection
StoredEvent(id, lat) ==
  [id |-> id, center_lat |-> Frac(lat, 1), severity |-> "low",
   hotspot_count |-> 1, max_frp |-> 10, first_detected_at |-> 1440,
   last_updated_at |-> 1440, intent_score |-> NoneVal, is_active |-> TRUE]

\* the hotspots table holds no two rows with one key
DistinctSeqs(S, n) ==
  {s \in SeqsUpTo(S, n) : \A i, j \in 1..Len(s) : i # j => s[i] # s[j]}

InitCluster ==
  /\ CycleIdle
  /\ pc = "assign"
  /\ scoring_input = <<>>
  /\ signals = <<>>
  /\ breakdown = <<>>
  /\ severity_pair = <<>>
  /\ scheduler = <<>>
  /\ clocks = SteadyClocks
  /\ stranded = {}
  /\ execute_count = 0
  /\ weather_client = <<>>
  /\ alerting = <<>>
  /\ \E batch \in DistinctSeqs(ClusterHotspots, MaxClusterBatch),
        centres \in SeqsUpTo(StoredCentres, MaxClusterEvents) :
       LET hotspots == [i \in 1..Len(batch) |-> Unenriched(batch[i])]
           rows == [i \in 1..Len(centres) |-> StoredEvent(i, centres[i])]
           sorted_hotspots == SortByDatetime(hotspots)
           candidates ==
             _fetch_active_events_for_clustering(sorted_hotspots, rows)
       IN clustering =
            <<[hotspots |-> hotspots, rows |-> rows,
               candidates |-> candidates, todo |-> sorted_hotspots,
               clusters |-> [i \in 1..Len(candidates) |->
                               [hs_list |-> <<>>,
                                db_event |-> <<candidates[i]>>]],
               placed |-> <<>>, result |-> <<>>]>>

\* the cluster one pass of the loop appended the hotspot to
PlacedAt(before, after) ==
  IF Len(after) > Len(before) THEN Len(after)
  ELSE CHOOSE i \in 1..Len(after) : after[i] # before[i]

\* one pass of `for hs in sorted_hotspots`
Assigned(c) ==
  LET hs == Head(c.todo)
      after == AssignClusters(<<hs>>, c.clusters)
  IN [c EXCEPT !.todo = Tail(@),
               !.clusters = after,
               !.placed = Append(@, [hs |-> hs,
                                     idx |-> PlacedAt(c.clusters, after),
                                     before |-> c.clusters])]

\* the pass ends at the `break` of the loop over db_events
AssignToStoreEvent ==
  /\ pc = "assign"
  /\ clustering[1].todo # <<>>
  /\ FirstDbCluster(Head(clustering[1].todo), clustering[1].clusters) # 0
  /\ clustering' = <<Assigned(clustering[1])>>
  /\ UNCHANGED <<pc, dispatcher, run_id, raw_hotspots, new_hotspots,
                 enriched, events, errors, stage_failures, record, semaphore,
                 unit, lookups, results, db_hotspots, db_events,
                 session_events, db_runs, calls, raised, fetching,
                 firms_failed, faults_left, scoring_input, signals,
                 breakdown, severity_pair, scheduler, clocks, stranded,
                 execute_count, weather_client, alerting>>

\* the pass ends at the `break` of the loop over the clusters with members
AssignToCluster ==
  /\ pc = "assign"
  /\ clustering[1].todo # <<>>
  /\ FirstDbCluster(Head(clustering[1].todo), clustering[1].clusters) = 0
  /\ FirstMemoryCluster(Head(clustering[1].todo), clustering[1].clusters) # 0
  /\ clustering' = <<Assigned(clustering[1])>>
  /\ UNCHANGED <<pc, dispatcher, run_id, raw_hotspots, new_hotspots,
                 enriched, events, errors, stage_failures, record, semaphore,
                 unit, lookups, results, db_hotspots, db_events,
                 session_events, db_runs, calls, raised, fetching,
                 firms_failed, faults_left, scoring_input, signals,
                 breakdown, severity_pair, scheduler, clocks, stranded,
                 execute_count, weather_client, alerting>>

\* the pass ends with clusters.append(([hs], None))
StartCluster ==
  /\ pc = "assign"
  /\ clustering[1].todo # <<>>
  /\ FirstDbCluster(Head(clustering[1].todo), clustering[1].clusters) = 0
  /\ FirstMemoryCluster(Head(clustering[1].todo), clustering[1].clusters) = 0
  /\ clustering' = <<Assigned(clustering[1])>>
  /\ UNCHANGED <<pc, dispatcher, run_id, raw_hotspots, new_hotspots,
                 enriched, events, errors, stage_failures, record, semaphore,
                 unit, lookups, results, db_hotspots, db_events,
                 session_events, db_runs, calls, raised, fetching,
                 firms_failed, faults_left, scoring_input, signals,
                 breakdown, severity_pair, scheduler, clocks, stranded,
                 execute_count, weather_client, alerting>>

\* the loop that builds result_events, and the return
BuildFireEvents ==
  /\ pc = "assign"
  /\ clustering[1].todo = <<>>
  /\ LET c == clustering[1]
         built == BuildEvents(c.clusters, [rows |-> c.rows, events |-> <<>>])
     IN clustering' = <<[c EXCEPT !.rows = built.rows,
                                  !.result = <<built.events>>]>>
  /\ pc' = "clustered"
  /\ UNCHANGED <<dispatcher, run_id, raw_hotspots, new_hotspots, enriched,
                 events, errors, stage_failures, record, semaphore, unit,
                 lookups, results, db_hotspots, db_events, session_events,
                 db_runs, calls, raised, fetching, firms_failed, faults_left,
                 scoring_input, signals, breakdown, severity_pair, scheduler,
                 clocks, stranded, execute_count, weather_client, alerting>>

ClusterNext ==
  \/ AssignToStoreEvent
  \/ AssignToCluster
  \/ StartCluster
  \/ BuildFireEvents

SpecCluster == InitCluster /\ [][ClusterNext]_vars

----------------------------------------------------------------------------
(* core/scheduler.py and core/pipeline.py: run_cycle called again and     *)
(* again over one store                                                    *)

\* the hotspots this cycle stored although its cluster stage failed
StrandedNow ==
  IF "cluster" \in stage_failures THEN Range(new_hotspots) ELSE {}

\* position of a source in the order fetch_all_sources lists the sources
SourceIndex(src) == CHOOSE i \in 1..Len(sources) : sources[i] = src

\* what fetch_all_sources returns when every source answers: the rows of
\* the sources, one source after the other
FetchedBatches ==
  {b \in SeqsUpTo(HotspotUniverse, MaxPerSource) :
     \A i, j \in 1..Len(b) :
       i < j => SourceIndex(b[i].source) <= SourceIndex(b[j].source)}

\* a cycle whose ingest stage has returned a batch
InitCycles ==
  /\ pc = "dedup"
  /\ dispatcher \in BOOLEAN
  /\ run_id = 1
  /\ \E batch \in FetchedBatches :
       /\ raw_hotspots = batch
       /\ record = [NewRecord(1) EXCEPT !.hotspots_fetched = Len(batch)]
  /\ new_hotspots = <<>>
  /\ enriched = <<>>
  /\ events = <<>>
  /\ errors = <<>>
  /\ stage_failures = {}
  /\ semaphore = 0
  /\ unit = <<>>
  /\ results = <<>>
  /\ lookups = <<>>
  /\ scoring_input = <<>>
  /\ signals = <<>>
  /\ breakdown = <<>>
  /\ severity_pair = <<>>
  /\ scheduler = <<>>
  /\ clustering = <<>>
  /\ stranded = {}
  /\ execute_count = 0
  /\ weather_client = <<>>
  /\ alerting = <<>>
  /\ clocks = SteadyClocks
  /\ db_runs = <<>>
  /\ calls = [c \in Collaborators |->
                IF c = "fetch_all_sources" THEN 1 ELSE 0]
  /\ raised = {}
  /\ fetching = <<>>
  /\ firms_failed = 0
  /\ faults_left = MaxBatchFaults
  /\ \E prior \in SeqsUpTo(HotspotUniverse, MaxPrior) :
       /\ db_hotspots = PriorStore(prior).hotspots
       /\ db_events = PriorStore(prior).events
       /\ session_events = PriorStore(prior).events

\* the interval job calls run_cycle once more and its ingest stage returns a
\* batch: new locals and a new run record, the store as the cycle before
\* left it
NextCycle ==
  /\ pc = "done"
  /\ run_id < MaxCycles
  /\ run_id' = run_id + 1
  /\ pc' = "dedup"
  /\ \E batch \in FetchedBatches :
       /\ raw_hotspots' = batch
       /\ record' = [NewRecord(run_id + 1) EXCEPT
                       !.hotspots_fetched = Len(batch)]
  /\ new_hotspots' = <<>>
  /\ enriched' = <<>>
  /\ events' = <<>>
  /\ errors' = <<>>
  /\ stage_failures' = {}
  /\ semaphore' = 0
  /\ unit' = <<>>
  /\ results' = <<>>
  /\ lookups' = <<>>
  /\ execute_count' = 0
  /\ calls' = [c \in Collaborators |->
                 IF c = "fetch_all_sources" THEN 1 ELSE 0]
  /\ raised' = {}
  /\ session_events' = db_events
  /\ stranded' = stranded \cup StrandedNow
  /\ UNCHANGED <<dispatcher, db_hotspots, db_events, db_runs, fetching,
                 firms_failed, faults_left, scoring_input, signals,
                 breakdown, severity_pair, scheduler, clocks, clustering,
                 weather_client, alerting>>

CyclesNext ==
  \/ DedupRaise \/ DedupNothingNew \/ DedupStoreRaise \/ DedupStore
  \/ EnrichNext
  \/ Cluster \/ ClusterRaise \/ ClusterFlushRaise \/ ClusterCommitRaise
  \/ Classify \/ ClassifyRaise \/ ClassifySkip
  \/ Alert \/ AlertRaise \/ AlertSkip
  \/ SaveRun \/ SaveRunRaise
  \/ NextCycle

SpecCycles == InitCycles /\ [][CyclesNext]_vars

----------------------------------------------------------------------------
(* processing/classifier.py: the nighttime signal of one event, scored on  *)
(* its own                                                                 *)

\* acquisition times, in minutes of the UTC day, on two days in a row
NightTimes == {30, 60, 300, 720, 1320, 1380, 1410}

NightHotspots ==
  { Unenriched([source |-> "VIIRS_SNPP_NRT", latitude |-> 0, longitude |-> 0,
                acq_date |-> d, acq_time |-> t, frp |-> 10]) :
      d \in {1, 2}, t \in NightTimes }

\* what cluster_hotspots puts into one new event: members in the order of
\* their timestamps, each within the temporal window of an earlier one
EventMembers ==
  {m \in SeqsUpTo(NightHotspots, MaxMembers) :
     \A i \in 2..Len(m) :
       /\ _hotspot_datetime(m[i - 1]) <= _hotspot_datetime(m[i])
       /\ \E k \in 1..(i - 1) :
            _hotspot_datetime(m[i]) - _hotspot_datetime(m[k])
              <= temporal_window_hours * 60}

InitNight ==
  /\ CycleIdle
  /\ pc = "score_night"
  /\ \E m \in EventMembers : scoring_input = <<[hotspots |-> m]>>
  /\ signals = <<>>
  /\ breakdown = <<>>
  /\ severity_pair = <<>>
  /\ scheduler = <<>>
  /\ clustering = <<>>
  /\ stranded = {}
  /\ execute_count = 0
  /\ weather_client = <<>>
  /\ alerting = <<>>
  /\ clocks = SteadyClocks

\* classify calls _score_nighttime(event)
ScoreNighttime ==
  /\ pc = "score_night"
  /\ signals' = <<Signal(_score_nighttime_event(scoring_input[1].hotspots),
                         nighttime_ignition)>>
  /\ pc' = "scored_night"
  /\ UNCHANGED <<dispatcher, run_id, raw_hotspots, new_hotspots, enriched,
                 events, errors, stage_failures, record, semaphore, unit,
                 lookups, results, db_hotspots, db_events, session_events,
                 db_runs, calls, raised, fetching, firms_failed, faults_left,
                 scoring_input, breakdown, severity_pair, scheduler, clocks,
                 clustering, stranded, execute_count, weather_client,
                 alerting>>

NightNext == ScoreNighttime

SpecNight == InitNight /\ [][NightNext]_vars

----------------------------------------------------------------------------
(* WeatherClient.get_weather_context on its own (weather.py 49-175): the
   units of one _enrich_batch share one client; a call runs without
   suspension from its cache check to the await of the HTTP request, and
   resumes when the response arrives *)

\* round(value / step) * step, coordinates in hundredths of a degree
_snap_to_grid(value, step) == RoundHalfEven(value, step) * step

_grid_key(latitude, longitude) ==
  <<_snap_to_grid(latitude, _GRID_DEGREES),
    _snap_to_grid(longitude, _GRID_DEGREES)>>

\* locations of the batch: the first three share the cell (-42.25, -71.50)
QueryLatitudes == {-4222, -4230, -4225, -4200}
QueryLongitudes == {-7143}
Queries == [latitude : QueryLatitudes, longitude : QueryLongitudes]
GridKeys == {_grid_key(q.latitude, q.longitude) : q \in Queries}

\* minutes by which datetime.now() is seen to advance between two steps
ClockTicks == {30, 60}

InitWeather ==
  /\ CycleIdle
  /\ pc = "enrich_weather"
  /\ alerting = <<>>
  /\ scoring_input = <<>>
  /\ signals = <<>>
  /\ breakdown = <<>>
  /\ severity_pair = <<>>
  /\ scheduler = <<>>
  /\ clustering = <<>>
  /\ stranded = {}
  /\ execute_count = 0
  /\ clocks = SteadyClocks
  /\ \E qs \in SeqsUpTo(Queries, MaxQueries) :
       weather_client =
         <<[_cache |-> [k \in GridKeys |-> <<>>],
            queries |-> [i \in 1..Len(qs) |->
                           [key |-> _grid_key(qs[i].latitude, qs[i].longitude),
                            at |-> "pending", result |-> <<>>]],
            api_calls |-> <<>>,
            now |-> 0,
            ticks |-> 0]>>

WeatherInFlight(wc) ==
  {i \in 1..Len(wc.queries) : wc.queries[i].at = "fetching"}

\* the cached entry of a key is present and younger than the TTL
CacheFresh(wc, key) ==
  /\ wc._cache[key] # <<>>
  /\ wc.now - wc._cache[key][1].cached_at < _CACHE_TTL_MINUTES

\* get_weather_context finds a fresh entry and returns it
CacheHit(i) ==
  /\ pc = "enrich_weather"
  /\ LET wc == weather_client[1]
         q == wc.queries[i]
     IN /\ q.at = "pending"
        /\ Cardinality(WeatherInFlight(wc)) < _ENRICHMENT_CONCURRENCY
        /\ CacheFresh(wc, q.key)
        /\ weather_client' =
             <<[wc EXCEPT !.queries[i].at = "done",
                          !.queries[i].result = <<wc._cache[q.key][1].ctx>>]>>
  /\ UNCHANGED <<pc, dispatcher, run_id, raw_hotspots, new_hotspots,
                 enriched, events, errors, stage_failures, record, semaphore,
                 unit, lookups, results, db_hotspots, db_events,
                 session_events, db_runs, calls, raised, fetching,
                 firms_failed, faults_left, scoring_input, signals,
                 breakdown, severity_pair, scheduler, clocks, clustering,
                 stranded, execute_count, alerting>>

\* get_weather_context finds no entry, or drops an expired one, and awaits
\* _fetch_and_parse: the provider request is issued
CacheMiss(i) ==
  /\ pc = "enrich_weather"
  /\ LET wc == weather_client[1]
         q == wc.queries[i]
     IN /\ q.at = "pending"
        /\ Cardinality(WeatherInFlight(wc)) < _ENRICHMENT_CONCURRENCY
        /\ ~CacheFresh(wc, q.key)
        /\ weather_client' =
             <<[wc EXCEPT !._cache[q.key] = <<>>,
                          !.queries[i].at = "fetching",
                          !.api_calls =
                             Append(@, [key |-> q.key, at |-> wc.now])]>>
  /\ UNCHANGED <<pc, dispatcher, run_id, raw_hotspots, new_hotspots,
                 enriched, events, errors, stage_failures, record, semaphore,
                 unit, lookups, results, db_hotspots, db_events,
                 session_events, db_runs, calls, raised, fetching,
                 firms_failed, faults_left, scoring_input, signals,
                 breakdown, severity_pair, scheduler, clocks, clustering,
                 stranded, execute_count, alerting>>

\* the response arrives: a parsed context is cached under the key with the
\* time of its arrival; an error or an unusable response yields None, which
\* is not cached
FetchReturns(i) ==
  /\ pc = "enrich_weather"
  /\ LET wc == weather_client[1]
         q == wc.queries[i]
     IN /\ q.at = "fetching"
        /\ \E result \in {<<"ctx">>, <<>>} :
             weather_client' =
               <<[wc EXCEPT
                    !._cache[q.key] =
                       IF result # <<>>
                       THEN <<[ctx |-> result[1], cached_at |-> wc.now]>>
                       ELSE @,
                    !.queries[i].at = "done",
                    !.queries[i].result = result]>>
  /\ UNCHANGED <<pc, dispatcher, run_id, raw_hotspots, new_hotspots,
                 enriched, events, errors, stage_failures, record, semaphore,
                 unit, lookups, results, db_hotspots, db_events,
                 session_events, db_runs, calls, raised, fetching,
                 firms_failed, faults_left, scoring_input, signals,
                 breakdown, severity_pair, scheduler, clocks, clustering,
                 stranded, execute_count, alerting>>

\* datetime.now(tz=UTC) advances
WeatherTick ==
  /\ pc = "enrich_weather"
  /\ LET wc == weather_client[1]
     IN /\ wc.ticks < MaxTicks
        /\ \E d \in ClockTicks :
             weather_client' =
               <<[wc EXCEPT !.now = @ + d, !.ticks = @ + 1]>>
  /\ UNCHANGED <<pc, dispatcher, run_id, raw_hotspots, new_hotspots,
                 enriched, events, errors, stage_failures, record, semaphore,
                 unit, lookups, results, db_hotspots, db_events,
                 session_events, db_runs, calls, raised, fetching,
                 firms_failed, faults_left, scoring_input, signals,
                 breakdown, severity_pair, scheduler, clocks, clustering,
                 stranded, execute_count, alerting>>

WeatherNext ==
  \/ \E i \in 1..Len(weather_client[1].queries) : CacheHit(i)
  \/ \E i \in 1..Len(weather_client[1].queries) : CacheMiss(i)
  \/ \E i \in 1..Len(weather_client[1].queries) : FetchReturns(i)
  \/ WeatherTick

SpecWeather == InitWeather /\ [][WeatherNext]_vars

----------------------------------------------------------------------------
(* AlertDispatcher on its own (dispatcher.py 47-338): one fire event, whose
   fire_events row is written by the cluster and classify stages of a cycle
   (clustering.py 257-279, pipeline.py 264-276) before the event is handed to
   dispatch_alerts; time is counted in hours *)

_SEVERITY_ORDER(sev) ==
  CASE sev = "low" -> 0 [] sev = "medium" -> 1 [] sev = "high" -> 2
    [] sev = "critical" -> 3 [] OTHER -> 0

severity_gte(a, b) == _SEVERITY_ORDER(a) >= _SEVERITY_ORDER(b)

severity_gt(a, b) == _SEVERITY_ORDER(a) > _SEVERITY_ORDER(b)

_INTENT_THRESHOLDS == {25, 50, 75}

_intent_boundary_crossed(old_score, new_score) ==
  \E threshold \in _INTENT_THRESHOLDS :
    old_score <= threshold /\ threshold < new_score

\* rows of alerts_sent of one (event, subscription) pair sent at or after
\* the cutoff
RecentAlerts(rows, event_id, subscription_id, cutoff) ==
  {i \in 1..Len(rows) : /\ rows[i].fire_event_id = event_id
                        /\ rows[i].subscription_id = subscription_id
                        /\ rows[i].sent_at >= cutoff}

\* variant: the pair is under the limit while its count does not exceed it
_check_rate_limitMut(rows, event_id, subscription_id, utcnow, cfg) ==
  Cardinality(RecentAlerts(rows, event_id, subscription_id,
                           utcnow - cfg.cooldown_hours))
    <= cfg.max_per_event_per_user

_check_rate_limit(rows, event_id, subscription_id, utcnow, cfg) ==
  Cardinality(RecentAlerts(rows, event_id, subscription_id,
                           utcnow - cfg.cooldown_hours))
    < cfg.max_per_event_per_user

\* event.intent.total if event.intent is not None else 0
current_intent(event) == IF event.intent = <<>> THEN 0 ELSE event.intent[1]

\* _should_escalate: FALSE without an earlier alert of the event, else the
\* event handed over is compared with the event's row as stored now
_should_escalate(event, rows, fe_row) ==
  IF ~\E i \in 1..Len(rows) : rows[i].fire_event_id = event.id THEN FALSE
  ELSE
    LET prev_severity == fe_row.severity
        prev_intent == IF fe_row.intent_score # <<>>
                       THEN fe_row.intent_score[1] ELSE 0
    IN \/ severity_gt(event.severity, prev_severity)
       \/ _intent_boundary_crossed(prev_intent, current_intent(event))

\* the active subscriptions whose zone contains the event
Subscriptions ==
  <<[id |-> "s1", min_severity |-> "low"],
    [id |-> "s2", min_severity |-> "high"]>>

Severities == {"low", "medium", "high", "critical"}

\* intent totals a classification yields
IntentTotals == {25, 26, 80}

AlertConfigs ==
  [max_per_event_per_user : 1..MaxPerPair, cooldown_hours : 1..MaxCooldown]

\* the dispatcher before its first call: the event's row as the cycle that
\* created it will write it, no alert stored
InitAlerting ==
  /\ CycleIdle
  /\ pc = "cluster_classify"
  /\ scoring_input = <<>>
  /\ signals = <<>>
  /\ breakdown = <<>>
  /\ severity_pair = <<>>
  /\ scheduler = <<>>
  /\ clustering = <<>>
  /\ stranded = {}
  /\ execute_count = 0
  /\ weather_client = <<>>
  /\ clocks = SteadyClocks
  /\ \E cfg \in AlertConfigs :
       alerting =
         <<[alerts |-> cfg,
            fe_row |-> [id |-> "E1", severity |-> "low",
                        intent_score |-> <<>>],
            event |-> <<>>,
            alerts_sent |-> <<>>,
            utcnow |-> 0,
            dispatches |-> 0,
            rate_limited |-> {},
            alerted_as |-> <<>>]>>

\* a cycle merges new hotspots into the event and classifies it, some hours
\* after the dispatch before: the merge stores the severity it returns, the
\* classify stage stores the total unless it fails
ClusterAndClassify(scores, hours) ==
  /\ pc = "cluster_classify"
  /\ LET a == alerting[1] IN
     /\ a.dispatches < MaxDispatches
     /\ \E sev \in Severities, score \in scores, elapsed \in hours,
           outcome \in {"persisted", "persist_raised", "classify_raised"} :
          /\ severity_gte(sev, a.fe_row.severity)
          /\ alerting' =
               <<[a EXCEPT
                    !.fe_row.severity = sev,
                    !.fe_row.intent_score =
                       IF outcome = "persisted" THEN <<score>> ELSE @,
                    !.event =
                       <<[id |-> "E1", severity |-> sev,
                          intent |-> IF outcome = "classify_raised"
                                     THEN <<>> ELSE <<score>>]>>,
                    !.utcnow = @ + elapsed]>>
  /\ pc' = "dispatch_alerts"
  /\ UNCHANGED <<dispatcher, run_id, raw_hotspots, new_hotspots, enriched,
                 events, errors, stage_failures, record, semaphore, unit,
                 lookups, results, db_hotspots, db_events, session_events,
                 db_runs, calls, raised, fetching, firms_failed, faults_left,
                 scoring_input, signals, breakdown, severity_pair, scheduler,
                 clocks, clustering, stranded, execute_count, weather_client>>

\* the AlertSent rows _dispatch_event adds for an event
NewAlerts(a) ==
  LET event == a.event[1]
      is_escalation == _should_escalate(event, a.alerts_sent, a.fe_row)
      Matches(sub) == severity_gte(event.severity, sub.min_severity)
      UnderLimit(sub) ==
        _check_rate_limit(a.alerts_sent, event.id, sub.id, a.utcnow, a.alerts)
      subscriptions == SelectSeq(Subscriptions, Matches)
      under_limit == SelectSeq(subscriptions, UnderLimit)
  IN [i \in 1..Len(under_limit) |->
        [fire_event_id |-> event.id,
         subscription_id |-> under_limit[i].id,
         sent_at |-> a.utcnow,
         is_escalation |-> is_escalation]]

\* the subscriptions _dispatch_event skips for the rate limit
RateLimited(a) ==
  LET event == a.event[1] IN
  {Subscriptions[i].id : i \in
     {k \in 1..Len(Subscriptions) :
        /\ severity_gte(event.severity, Subscriptions[k].min_severity)
        /\ ~_check_rate_limit(a.alerts_sent, event.id, Subscriptions[k].id,
                              a.utcnow, a.alerts)}}

\* dispatch_alerts([event]): _dispatch_event sends, records and commits.
\* rate_limited and alerted_as are history: the subscriptions this call
\* skipped, and the event's severity and intent total when the most recent
\* stored alert was sent
DispatchEvent ==
  /\ pc = "dispatch_alerts"
  /\ LET a == alerting[1]
         event == a.event[1]
         rows == NewAlerts(a)
     IN alerting' =
          <<[a EXCEPT
               !.alerts_sent = @ \o rows,
               !.dispatches = @ + 1,
               !.rate_limited = RateLimited(a),
               !.alerted_as =
                  IF rows = <<>> THEN @
                  ELSE <<[severity |-> event.severity,
                          intent_total |-> current_intent(event)]>>]>>
  /\ pc' = "cluster_classify"
  /\ UNCHANGED <<dispatcher, run_id, raw_hotspots, new_hotspots, enriched,
                 events, errors, stage_failures, record, semaphore, unit,
                 lookups, results, db_hotspots, db_events, session_events,
                 db_runs, calls, raised, fetching, firms_failed, faults_left,
                 scoring_input, signals, breakdown, severity_pair, scheduler,
                 clocks, clustering, stranded, execute_count, weather_client>>

\* a query, a send or the commit raises: the session is closed without a
\* commit and no row of this call is stored
DispatchEventRaise ==
  /\ pc = "dispatch_alerts"
  /\ LET a == alerting[1] IN
     alerting' = <<[a EXCEPT !.dispatches = @ + 1, !.rate_limited = {}]>>
  /\ pc' = "cluster_classify"
  /\ UNCHANGED <<dispatcher, run_id, raw_hotspots, new_hotspots, enriched,
                 events, errors, stage_failures, record, semaphore, unit,
                 lookups, results, db_hotspots, db_events, session_events,
                 db_runs, calls, raised, fetching, firms_failed, faults_left,
                 scoring_input, signals, breakdown, severity_pair, scheduler,
                 clocks, clustering, stranded, execute_count, weather_client>>

\* dispatches at varying distances in time, one classification result
DispatchNext ==
  \/ ClusterAndClassify({26}, 0..MaxElapsed)
  \/ DispatchEvent
  \/ DispatchEventRaise

SpecDispatch == InitAlerting /\ [][DispatchNext]_vars

\* dispatches in quick succession, varying classification results
EscalateNext ==
  \/ ClusterAndClassify(IntentTotals, {0})
  \/ DispatchEvent
  \/ DispatchEventRaise

SpecEscalate == InitAlerting /\ [][EscalateNext]_vars

----------------------------------------------------------------------------
(* Properties of run_cycle *)

DedupPoints == {"deduplicate", "store_hotspots", "commit_hotspots"}

ClusterPoints == {"cluster_hotspots", "commit_events"}

LaterStageCalls ==
  {"get_weather_context", "get_road_context", "cluster_hotspots", "classify",
   "persist_intent", "dispatch"}

\* some enriched hotspot lacks weather or road context
SomeContextAbsent ==
  \E i \in 1..Len(enriched) :
    enriched[i].weather = NoneVal \/ enriched[i].road = NoneVal

\* rows of the pipeline_runs table that belong to this cycle
RowsOfCycle == {i \in 1..Len(db_runs) : db_runs[i].id = run_id}

\* C1: the returned record is FAILED iff ingest or dedup+store raised;
\* otherwise PARTIAL iff another stage raised or some hotspot lacks weather
\* or road context; otherwise SUCCESS.
C1_StatusDerivation ==
  pc = "done" =>
    LET fatal == raised \cap ({"fetch_all_sources"} \cup DedupPoints) # {}
        degraded ==
          \/ raised \cap ({"_enrich_batch", "classify", "persist_intent",
                           "dispatch"} \cup ClusterPoints) # {}
          \/ SomeContextAbsent
    IN record.status =
         IF fatal THEN FAILED ELSE IF degraded THEN PARTIAL ELSE SUCCESS

\* a cycle that is PARTIAL only because a lookup came back absent
C1_Witness ==
  /\ pc = "done"
  /\ raised = {}
  /\ SomeContextAbsent
  /\ record.status = PARTIAL

\* once the record is handed to _save_pipeline_run no stage collaborator is
\* called and no table other than pipeline_runs changes
NoStageActionAfterSave ==
  pc \in {"save", "done"} =>
    /\ \A c \in Collaborators \ {"save_pipeline_run"} : calls'[c] = calls[c]
    /\ db_hotspots' = db_hotspots
    /\ db_events' = db_events

\* C2 as stated: when run_cycle has returned, exactly one row of the cycle
\* is in the store.
C2_ExactlyOneRow == pc = "done" => Cardinality(RowsOfCycle) = 1

\* C2 amended: exactly one write of the cycle's row is attempted, after the
\* last stage action; on return one row of the cycle is in the store when
\* that write succeeded and none when it raised.
C2_OneSaveAttempt ==
  /\ [](IF pc = "done"
        THEN /\ calls["save_pipeline_run"] = 1
             /\ Cardinality(RowsOfCycle) =
                  IF "save_pipeline_run" \in raised THEN 0 ELSE 1
        ELSE /\ calls["save_pipeline_run"] = 0
             /\ RowsOfCycle = {})
  /\ [][NoStageActionAfterSave]_vars

\* a full cycle that dispatched alerts and whose row was written
C2_Witness ==
  /\ pc = "done"
  /\ calls["dispatch"] = 1
  /\ Cardinality(RowsOfCycle) = 1

\* position of run_cycle along its stages
StageRank ==
  CASE pc = "ingest" -> 0 [] pc = "fetching" -> 1 [] pc = "dedup" -> 2
    [] pc = "enrich" -> 3 [] pc = "enriching" -> 4 [] pc = "cluster" -> 5
    [] pc = "classify" -> 6 [] pc = "alert" -> 7 [] pc = "save" -> 8
    [] OTHER -> 9

\* work done so far: the stage reached, the source fetches answered, the
\* enrichment units started and finished
Progress ==
  StageRank * 100
    + Cardinality({i \in 1..Len(fetching) : fetching[i].done})
    + Cardinality({i \in 1..Len(unit) : unit[i] # "waiting"})
    + Cardinality({i \in 1..Len(unit) : unit[i] = "done"})

EveryStepAdvances == Progress' > Progress

\* the steps of Next other than those in which cluster_hotspots builds events
\* (while the cycle is at the cluster stage, ClusterRaise is among them)
StepOfCycle ==
  \/ IngestStart \/ (\E i \in 1..Len(fetching) : FetchSource(i))
  \/ Ingest \/ IngestRaise
  \/ DedupRaise \/ DedupNothingNew \/ DedupStoreRaise \/ DedupStore
  \/ EnrichNext
  \/ ClusterRaise
  \/ Classify \/ ClassifyRaise \/ ClassifySkip
  \/ Alert \/ AlertRaise \/ AlertSkip
  \/ SaveRun \/ SaveRunRaise

\* C3: no exception raised by a collaborator leaves run_cycle, and the cycle
\* terminates with a record: every step advances a bounded measure, and a
\* cycle that has not returned can take a step.
C3_NeverPropagates ==
  /\ [](pc # "propagated")
  /\ [](pc # "done" => ENABLED StepOfCycle)
  /\ [](Progress <= 1000)
  /\ [][EveryStepAdvances]_vars

\* a cycle that returned although three stages and the save raised
C3_Witness ==
  /\ pc = "done"
  /\ {"_enrich_batch", "commit_events", "save_pipeline_run"} \subseteq raised

\* no step of a cycle whose fetch raised changes the hotspot or event tables
StoreUntouchedByFailedIngest ==
  "fetch_all_sources" \in raised' =>
    (db_hotspots' = db_hotspots /\ db_events' = db_events)

\* C4: when the hotspot fetch raises, the cycle is FAILED, no later
\* collaborator is called and the store is written only by the run record.
C4_IngestFatal ==
  /\ []("fetch_all_sources" \in raised =>
          /\ \A c \in (DedupPoints \cup LaterStageCalls) \cap Collaborators :
               calls[c] = 0
          /\ record.status = FAILED
          /\ pc \in {"save", "done"})
  /\ [][StoreUntouchedByFailedIngest]_vars

C4_Witness ==
  /\ pc = "done"
  /\ "fetch_all_sources" \in raised
  /\ Cardinality(RowsOfCycle) = 1

\* C5: when dedup+store raises or finds nothing new, the cycle ends without
\* enrichment, clustering, classification or dispatch; the status is SUCCESS
\* for nothing new and FAILED for a raise.
C5_DedupEndsCycle ==
  LET dedup_raised == raised \cap DedupPoints # {}
      nothing_new == /\ calls["deduplicate"] = 1
                     /\ ~dedup_raised
                     /\ new_hotspots = <<>>
  IN (dedup_raised \/ nothing_new) =>
       /\ \A c \in LaterStageCalls : calls[c] = 0
       /\ pc \in {"save", "done"}
       /\ record.status = IF dedup_raised THEN FAILED ELSE SUCCESS

\* the store insert raised after new hotspots had been found
C5_Witness ==
  /\ pc = "done"
  /\ "store_hotspots" \in raised
  /\ new_hotspots # <<>>

\* C6 as stated: a cycle in which all four FIRMS sub-sources failed is FAILED.
C6_TotalSourceFailureFatal ==
  (pc = "done" /\ firms_failed = Len(sources)) => record.status = FAILED

\* C7: classifier and dispatcher are not called after a cluster failure, and
\* the dispatcher is not called when none is configured.
C7_SkippedAfterClusterFailure ==
  /\ raised \cap ClusterPoints # {} =>
       /\ calls["classify"] = 0
       /\ calls["persist_intent"] = 0
       /\ calls["dispatch"] = 0
  /\ ~dispatcher => calls["dispatch"] = 0

\* the cluster call returned events, its commit raised, a dispatcher exists
C7_Witness ==
  /\ pc = "done"
  /\ "commit_events" \in raised
  /\ events # <<>>
  /\ dispatcher

\* C8: whatever the outcome of enrichment, the cycle goes on to the cluster
\* stage with one wrapper per new hotspot, whose contexts are a context or
\* absent.
C8_EnrichNeverFatal ==
  /\ pc \in {"cluster", "classify", "alert", "save", "done"}
       /\ new_hotspots # <<>> /\ raised \cap DedupPoints = {} =>
       /\ Len(enriched) = Len(new_hotspots)
       /\ \A i \in 1..Len(enriched) :
            /\ enriched[i].hotspot = new_hotspots[i]
            /\ enriched[i].weather \in {"WeatherContext", NoneVal}
            /\ enriched[i].road \in {"RoadContext", NoneVal}
       /\ "_enrich_batch" \in raised =>
            \A i \in 1..Len(enriched) : enriched[i] = Unenriched(new_hotspots[i])
  /\ pc \in {"classify", "alert", "save", "done"}
       /\ new_hotspots # <<>> /\ raised \cap DedupPoints = {} =>
       calls["cluster_hotspots"] = 1
  /\ pc \in {"enrich", "enriching"} => raised = {}

\* enrichment raised as a whole and the cluster stage still ran
C8_Witness ==
  /\ pc = "done"
  /\ "_enrich_batch" \in raised
  /\ calls["cluster_hotspots"] = 1
  /\ Len(enriched) = 2

\* units holding the semaphore
InFlight == {i \in 1..Len(unit) : unit[i] = "inflight"}

\* C9: at most 10 enrichment units are in flight at any time.
C9_BoundedInFlight == Cardinality(InFlight) <= _ENRICHMENT_CONCURRENCY

\* the limiter is full and another unit is waiting for a slot
C9_Witness ==
  /\ Cardinality(InFlight) = _ENRICHMENT_CONCURRENCY
  /\ \E i \in 1..Len(unit) : unit[i] = "waiting"

\* C10: whatever the completion order, every result sits at the position of
\* its input, and the enriched list has the length of the input list.
C10_OrderPreserved ==
  /\ pc = "enriching" =>
       \A i \in 1..Len(results) :
         results[i] # <<>> => results[i][1].hotspot = new_hotspots[i]
  /\ pc = "cluster" =>
       /\ Len(enriched) = Len(new_hotspots)
       /\ \A i \in 1..Len(enriched) : enriched[i].hotspot = new_hotspots[i]

\* a later unit has completed before an earlier one
C10_Witness ==
  /\ pc = "enriching"
  /\ \E i, j \in 1..Len(unit) :
       i < j /\ unit[i] = "inflight" /\ unit[j] = "done"

----------------------------------------------------------------------------
(* Properties of the enrichment of one hotspot *)

\* the context a wrapper must carry for a lookup that gave `outcome`
Expected(outcome, ctx) == IF outcome = "ok" THEN ctx ELSE NoneVal

\* wrapper eh carries, for each lookup, exactly what that lookup gave
CarriesOwnLookups(eh, given) ==
  /\ eh.weather = Expected(given.weather, "WeatherContext")
  /\ eh.road = Expected(given.road, "RoadContext")

\* C11: within one hotspot's enrichment the weather context depends on the
\* weather lookup alone and the road context on the road lookup alone, and
\* whatever the lookups of one hotspot gave, every hotspot of the batch ends
\* up enriched with what its own lookups gave.
C11_LookupsIndependent ==
  /\ pc = "enriching" =>
       \A i \in 1..Len(results) :
         results[i] # <<>> =>
           /\ lookups[i] # <<>>
           /\ results[i][1].hotspot = new_hotspots[i]
           /\ CarriesOwnLookups(results[i][1], lookups[i][1])
  /\ (pc = "cluster" /\ "_enrich_batch" \notin raised) =>
       /\ Len(enriched) = Len(new_hotspots)
       /\ Len(lookups) = Len(new_hotspots)
       /\ \A i \in 1..Len(enriched) :
            /\ lookups[i] # <<>>
            /\ CarriesOwnLookups(enriched[i], lookups[i][1])

\* one hotspot's weather lookup raised, its road context is kept, and
\* another hotspot of the batch is fully enriched
C11_Witness ==
  /\ pc = "cluster"
  /\ Len(lookups) = Len(enriched)
  /\ \E i, j \in 1..Len(enriched) :
       /\ i # j
       /\ lookups[i] = <<[weather |-> "raise", road |-> "ok"]>>
       /\ enriched[i].road = "RoadContext"
       /\ enriched[i].weather = NoneVal
       /\ lookups[j] = <<[weather |-> "ok", road |-> "ok"]>>
       /\ enriched[j].weather = "WeatherContext"
       /\ enriched[j].road = "RoadContext"

----------------------------------------------------------------------------
(* Properties of the cluster call *)

\* a step of a cycle whose cluster stage has failed by the end of the step
\* leaves the fire_events table as it was
FailedClusterLeavesEvents ==
  raised' \cap ClusterPoints # {} => db_events' = db_events

\* C12: a cluster call is all-or-nothing: when it fails, also after events
\* were inserted or updated within the call, none of its insertions or
\* updates is in the store afterwards.
C12_ClusterAllOrNothing == [][FailedClusterLeavesEvents]_vars

\* the call failed after it had flushed a merged count into a pre-existing
\* event, and the stored event still has its old count
C12_Witness ==
  /\ pc = "done"
  /\ "cluster_hotspots" \in raised
  /\ \E i \in 1..Len(db_events) :
       /\ i <= Len(session_events)
       /\ session_events[i].id = db_events[i].id
       /\ session_events[i].hotspot_count > db_events[i].hotspot_count

----------------------------------------------------------------------------
(* Properties of deduplicate and store_hotspots *)

\* C13: once the hotspots deduplicate returned for a batch have been stored
\* and committed, deduplicate returns nothing for the same batch, and the
\* cycle that fetches the batch again reports new_hotspots = 0 with status
\* SUCCESS.
C13_DedupIdempotent ==
  run_id >= 2 =>
    /\ deduplicate(raw_hotspots, db_hotspots) = <<>>
    /\ pc \in {"dedup", "save", "done"}
    /\ (pc \in {"save", "done"} /\ "deduplicate" \notin raised) =>
         /\ new_hotspots = <<>>
         /\ record.new_hotspots = 0
         /\ record.status = SUCCESS

\* the second cycle over a batch of two, one of which was new to the store
\* and one a duplicate of a stored row, has returned
C13_Witness ==
  /\ run_id = 2
  /\ pc = "done"
  /\ raised = {}
  /\ Len(raw_hotspots) = 2
  /\ \E i, j \in 1..2 :
       /\ raw_hotspots[i] \in db_hotspots
       /\ raw_hotspots[j] \notin db_hotspots
  /\ record.hotspots_fetched = 2
  /\ record.new_hotspots = 0
  /\ record.status = SUCCESS

\* a stored row matches a candidate: same source and date, within the
\* spatial tolerance, minute of day within the temporal tolerance
Matches(c, ex) ==
  /\ ex.source = c.source
  /\ ex.acq_date = c.acq_date
  /\ haversine_distance(c.latitude, c.longitude, ex.latitude, ex.longitude)
       <= spatial_tolerance_m
  /\ LET d == Abs(c.acq_time - ex.acq_time)
     IN Min2(d, 1440 - d) <= temporal_tolerance_minutes

NonMatching(hotspots, stored) ==
  SelectSeq(hotspots, LAMBDA c : ~\E ex \in stored : Matches(c, ex))

\* a step in which deduplicate returns
DedupReturnsNonMatching ==
  (/\ pc = "dedup"
   /\ calls'["deduplicate"] = calls["deduplicate"] + 1
   /\ "deduplicate" \notin raised') =>
    new_hotspots' = NonMatching(raw_hotspots, db_hotspots)

\* C14 as stated: deduplicate returns, in input order, exactly the
\* candidates that no stored hotspot matches.
C14_ReturnsExactlyNonMatching == [][DedupReturnsNonMatching]_vars

----------------------------------------------------------------------------
(* Properties of cluster_hotspots *)

\* the members of the returned events that carry the id of a stored event
MergedInto(evs, id) ==
  Flatten([k \in 1..Len(evs) |->
             IF evs[k].id = id THEN evs[k].hotspots ELSE <<>>])

\* a cluster call that commits leaves every pre-existing event with its
\* old count plus the number of hotspots merged into it and with the larger
\* of its old peak FRP and the largest FRP merged into it
MergeKeepsCountAndPeak ==
  (pc = "cluster" /\ pc' = "classify" /\ raised' \cap ClusterPoints = {}) =>
    /\ Len(db_events') >= Len(db_events)
    /\ \A i \in 1..Len(db_events) :
         LET merged == MergedInto(events', db_events[i].id)
             frps == {merged[k].hotspot.frp : k \in 1..Len(merged)}
         IN /\ db_events'[i].id = db_events[i].id
            /\ db_events'[i].hotspot_count =
                 db_events[i].hotspot_count + Len(merged)
            /\ db_events'[i].max_frp =
                 MaxOf(frps \cup {db_events[i].max_frp})

\* C15: when K hotspots of the batch are merged into a stored event of count
\* N, the stored count after the call is N+K and the stored peak FRP is the
\* maximum of the old peak and the largest FRP among the K.
C15_MergeCountAndPeak == [][MergeKeepsCountAndPeak]_vars

\* two hotspots with FRP 10 and 30 were merged into an event of count 1:
\* the stored count is 3 and the stored peak 30
C15_Witness ==
  /\ pc = "classify"
  /\ \E k \in 1..Len(events), i \in 1..Len(db_events) :
       /\ db_events[i].id = events[k].id
       /\ Len(events[k].hotspots) = 2
       /\ db_events[i].hotspot_count = 3
       /\ db_events[i].max_frp = 30
       /\ {events[k].hotspots[m].hotspot.frp : m \in 1..2} = {10, 30}

\* C16: every event a cluster call returned has a non-empty member list, and
\* every member is a hotspot of the batch the call was given.
C16_MembersFromBatch ==
  \A k \in 1..Len(events) :
    /\ events[k].hotspots # <<>>
    /\ \A m \in 1..Len(events[k].hotspots) :
         \E i \in 1..Len(enriched) : events[k].hotspots[m] = enriched[i]

\* a returned event that merged one batch hotspot into a stored event of
\* count 1: the row counts 2, the member list holds the one batch hotspot
C16_Witness ==
  /\ pc = "classify"
  /\ "cluster" \notin stage_failures
  /\ \E k \in 1..Len(events), i \in 1..Len(db_events) :
       /\ db_events[i].id = events[k].id
       /\ db_events[i].hotspot_count = 2
       /\ Len(events[k].hotspots) = 1

----------------------------------------------------------------------------
(* Properties of the classifier *)

AllAvailable == \A i \in 1..Len(signals) : signals[i].avail

\* every available signal has the full weight as its raw score
AvailableAtMaximum ==
  \A i \in 1..Len(signals) : signals[i].avail => signals[i].score = signals[i].max_w

\* C17: whatever signals are available and whatever their raw scores, the
\* total of the breakdown is at most 100, and it is exactly 100 when all six
\* signals are available with their maximum raw scores.
C17_TotalAtMost100 ==
  pc = "classified" =>
    /\ total(breakdown[1]) <= 100
    /\ (AllAvailable /\ AvailableAtMaximum) => total(breakdown[1]) = 100

\* some signal is unavailable, the rescaled scores round to a sum above 100
\* and the breakdown's total is 100
C17_Witness ==
  /\ pc = "classified"
  /\ ~AllAvailable
  /\ SeqSum(Rescaled(signals)) > 100
  /\ total(breakdown[1]) = 100

\* C18: whether or not the event carries weather and road context, when
\* every available signal has its maximum raw score the breakdown that
\* classify returns has total exactly 100.
C18_AvailableMaximaGive100 ==
  (pc = "classified" /\ scoring_input # <<>> /\ AvailableAtMaximum) =>
    total(breakdown[1]) = 100

\* the argument classify hands to the scorer of signal i
DataOf(i, inp) ==
  CASE i \in {1, 6} -> <<inp.weather>>
    [] i = 2 -> <<inp.road>>
    [] i = 3 -> <<inp.utc_hour>>
    [] i = 4 -> <<inp.history_count, inp.months_since_last>>
    [] i = 5 -> <<inp.nearby_event_count>>

RawScoresIndependent ==
  (pc = "classified" /\ pc' = "classified") =>
    \A i \in 1..6 :
      DataOf(i, scoring_input'[1]) = DataOf(i, scoring_input[1]) =>
        signals'[i].score = signals[i].score

----------------------------------------------------------------------------
(* Properties of calculate_severity *)

\* the order LOW < MEDIUM < HIGH < CRITICAL
SeverityRank(sev) ==
  CASE sev = "low" -> 1 [] sev = "medium" -> 2
    [] sev = "high" -> 3 [] sev = "critical" -> 4

\* C20: for one peak FRP and hotspot counts c1 <= c2, the severity of c1 is
\* at most the severity of c2 in the order LOW < MEDIUM < HIGH < CRITICAL.
C20_SeverityMonotone ==
  (/\ pc = "severity"
   /\ severity_pair[1].first # <<>>
   /\ severity_pair[1].second # <<>>) =>
    SeverityRank(severity_pair[1].first[1])
      <= SeverityRank(severity_pair[1].second[1])

\* below the critical FRP, a count in the high range and a larger one in
\* the critical range have been given severities HIGH and CRITICAL
C20_Witness ==
  /\ pc = "severity"
  /\ severity_pair[1].max_frp <= critical_frp_threshold_mw
  /\ severity_pair[1].c1 < severity_pair[1].c2
  /\ severity_pair[1].first = <<"high">>
  /\ severity_pair[1].second = <<"critical">>

\* C21: whatever the hotspot count, a peak FRP strictly above the critical
\* FRP threshold gives severity CRITICAL.
C21_FrpOverride ==
  (pc = "severity"
   /\ severity_pair[1].max_frp > critical_frp_threshold_mw) =>
    /\ severity_pair[1].first \in {<<>>, <<"critical">>}
    /\ severity_pair[1].second \in {<<>>, <<"critical">>}

\* a count of the medium range with a peak FRP one above the threshold has
\* been given severity CRITICAL
C21_Witness ==
  /\ pc = "severity"
  /\ severity_pair[1].max_frp = critical_frp_threshold_mw + 1
  /\ severity_pair[1].c1 = 3
  /\ severity_pair[1].first = <<"critical">>

\* C22: the label of a breakdown is decided by its total alone: natural up
\* to 25, uncertain from 26 to 50, suspicious from 51 to 75 and
\* likely_intentional above 75.
C22_LabelBands ==
  pc = "classified" =>
    LET t == total(breakdown[1])
        l == label(breakdown[1])
    IN /\ (l = "natural") <=> (t <= 25)
       /\ (l = "uncertain") <=> (26 <= t /\ t <= 50)
       /\ (l = "suspicious") <=> (51 <= t /\ t <= 75)
       /\ (l = "likely_intentional") <=> (t > 75)

\* a breakdown renormalized over fewer than six signals has total exactly
\* 75 and label suspicious
C22_Witness ==
  /\ pc = "classified"
  /\ breakdown[1].active_signals < 6
  /\ total(breakdown[1]) = 75
  /\ label(breakdown[1]) = "suspicious"

\* the events the cluster stage returned whose id is (not) the id of a row
\* the fire_events table held before the stage ran
MergedEvents == {k \in 1..Len(events') :
                   \E j \in 1..Len(db_events) : db_events[j].id = events'[k].id}

CreatedEvents == (1..Len(events')) \ MergedEvents

CountsSplitCreatedAndUpdated ==
  (pc = "cluster" /\ pc' = "classify" /\ "cluster" \notin stage_failures') =>
    /\ record'.events_created = Cardinality(CreatedEvents)
    /\ record'.events_updated = Cardinality(MergedEvents)
    /\ record'.events_created + record'.events_updated = Len(events')

\* C23: after a successful cluster stage events_created is the number of
\* returned events that were not in the store before the cycle and
\* events_updated the number that were merged into a stored event, so the
\* two add up to the number of returned events.
C23_CreatedAndUpdatedCounts == [][CountsSplitCreatedAndUpdated]_vars

----------------------------------------------------------------------------
(* Properties of scheduled operation *)

CyclesInProgress ==
  (IF InProgress(scheduler[1].initial_cycle) THEN 1 ELSE 0)
    + (IF InProgress(scheduler[1].job_cycle) THEN 1 ELSE 0)

\* C24: in scheduled operation at most one pipeline cycle is executing at
\* any time; a trigger that fires while a cycle is running starts no second
\* cycle.
C24_AtMostOneCycle == pc = "scheduled" => CyclesInProgress <= 1

----------------------------------------------------------------------------
(* Properties of the run record's timing *)

\* C25: every record run_cycle returns has completed_at set and not before
\* started_at, and duration_ms set and not negative.
C25_CompletedNotBeforeStarted ==
  pc = "done" =>
    /\ record.completed_at # <<>>
    /\ record.completed_at[1] >= record.started_at
    /\ record.duration_ms # <<>>
    /\ record.duration_ms[1] >= 0

----------------------------------------------------------------------------
(* Properties of cluster_hotspots *)

\* position, in query order, of the first candidate store event whose stored
\* centroid is within the spatial radius of the hotspot; 0 when there is none
FirstStoreMatch(hs, candidates) ==
  LET hits == {i \in 1..Len(candidates) :
                 WithinRadius(hs, candidates[i].center_lat, spatial_radius_m)}
  IN IF hits = {} THEN 0 ELSE MinOf(hits)

\* the clusters that belong to no store event, whose running centroid is
\* within the radius of the hotspot and which have a member within the
\* temporal window of it
QualifyingNewClusters(hs, clusters) ==
  {i \in 1..Len(clusters) :
     /\ clusters[i].db_event = <<>>
     /\ clusters[i].hs_list # <<>>
     /\ WithinRadius(hs, calculate_centroid(clusters[i].hs_list),
                     spatial_radius_m)
     /\ \E k \in 1..Len(clusters[i].hs_list) :
          Abs(_hotspot_datetime(hs) - _hotspot_datetime(clusters[i].hs_list[k]))
            <= temporal_window_hours * 60}

\* C26: a hotspot is placed in the cluster of a store event E if and only if
\* E is the first candidate store event, in query order, whose stored
\* centroid is within the spatial radius of the hotspot; a hotspot within
\* the radius of no store event's centroid is in no store event's cluster.
\* (Cluster e of the list belongs to candidate e.)
C26_StoreEventTakesFirstMatch ==
  pc \in {"assign", "clustered"} =>
    \A k \in 1..Len(clustering[1].placed) :
      LET p == clustering[1].placed[k]
          candidates == clustering[1].candidates
      IN \A e \in 1..Len(candidates) :
           (p.idx = e) <=> (FirstStoreMatch(p.hs, candidates) = e)

\* C27: a hotspot that matches no store event joins the first cluster formed
\* in this call, in creation order, whose running centroid is within the
\* radius and which has a member within the temporal window; when there is
\* none it starts a new cluster of its own.
C27_JoinsFirstNewClusterOrStartsOne ==
  pc \in {"assign", "clustered"} =>
    \A k \in 1..Len(clustering[1].placed) :
      LET p == clustering[1].placed[k]
          q == QualifyingNewClusters(p.hs, p.before)
      IN FirstStoreMatch(p.hs, clustering[1].candidates) = 0 =>
           IF q # {} THEN p.idx = MinOf(q)
           ELSE p.idx = Len(p.before) + 1

\* the places of the output events' member lists that hold the hotspot
PlacesOf(hs, fire_events) ==
  {<<e, k>> \in (1..Len(fire_events)) \X (1..MaxClusterBatch + 1) :
     /\ k <= Len(fire_events[e].hotspots)
     /\ fire_events[e].hotspots[k] = hs}

\* C28: every hotspot of the batch given to cluster_hotspots is in the member
\* list of exactly one returned event, and the sizes of the member lists sum
\* to the size of the batch.
C28_EveryHotspotInOneEvent ==
  pc = "clustered" =>
    LET c == clustering[1]
        fire_events == c.result[1]
    IN /\ \A i \in 1..Len(c.hotspots) :
            Cardinality(PlacesOf(c.hotspots[i], fire_events)) = 1
       /\ SeqSum([e \in 1..Len(fire_events) |-> Len(fire_events[e].hotspots)])
            = Len(c.hotspots)

\* a batch of three that went partly to a store event and partly to a new
\* cluster
C28_Witness ==
  /\ pc = "clustered"
  /\ Len(clustering[1].hotspots) = MaxClusterBatch
  /\ Len(clustering[1].result[1]) >= 2
  /\ \E e \in 1..Len(clustering[1].result[1]) :
       /\ clustering[1].result[1][e].id <= Len(clustering[1].candidates)
       /\ clustering[1].candidates # <<>>
       /\ Len(clustering[1].result[1][e].hotspots) = 2

----------------------------------------------------------------------------
(* Properties of successive cycles over one store *)

\* the hotspots the rows of the fire_events table count
CountedHotspots ==
  SeqSum([i \in 1..Len(db_events) |-> db_events[i].hotspot_count])

\* the raw hotspots this cycle hands on after its dedup stage
HandedOn ==
  Range(new_hotspots)
    \cup {enriched[i].hotspot : i \in 1..Len(enriched)}
    \cup UNION {{events[e].hotspots[k].hotspot :
                   k \in 1..Len(events[e].hotspots)} : e \in 1..Len(events)}

\* C29: hotspots a cycle stored before its cluster stage failed stay in the
\* store; no later cycle hands them on from its dedup stage, whether it
\* fetched them again or not; and no row of fire_events counts them (the
\* rows count at most the stored hotspots that are not among them).
C29_StrandedHotspotsNeverCounted ==
  /\ (stranded \cup StrandedNow) \subseteq db_hotspots
  /\ stranded \cap HandedOn = {}
  /\ CountedHotspots + Cardinality(stranded \cup StrandedNow)
       <= Cardinality(db_hotspots)

\* a later cycle fetched a stranded hotspot again together with a new one,
\* clustered what was new and ended
C29_Witness ==
  /\ pc = "done"
  /\ run_id > 1
  /\ \E h \in stranded : h \in Range(raw_hotspots)
  /\ new_hotspots # <<>>
  /\ calls["cluster_hotspots"] = 1
  /\ "cluster" \notin stage_failures

----------------------------------------------------------------------------
(* Properties of the dedup stage on a batch with repeated candidates *)

\* two members of the sequence have one unique-constraint key
HasTwins(hotspots) ==
  \E i, j \in 1..Len(hotspots) :
    i < j /\ HotspotKey(hotspots[i]) = HotspotKey(hotspots[j])

\* the fetched batch holds two candidates with one key that no stored
\* hotspot matches
TwinCandidates ==
  \E i, j \in 1..Len(raw_hotspots) :
    /\ i < j
    /\ HotspotKey(raw_hotspots[i]) = HotspotKey(raw_hotspots[j])
    /\ ~\E ex \in db_hotspots : IsDuplicateOf(raw_hotspots[i], ex)

TwinsFailTheCycle ==
  /\ (pc = "dedup" /\ pc' # "dedup" /\ TwinCandidates
        /\ "deduplicate" \notin raised') =>
       /\ HasTwins(new_hotspots')
       /\ "store_hotspots" \in raised'
       /\ db_hotspots' = db_hotspots
       /\ record'.status = FAILED
       /\ pc' = "save"
  /\ (pc = "save" /\ HasTwins(new_hotspots)) =>
       /\ record'.status = FAILED
       /\ db_hotspots' = db_hotspots
       /\ pc' = "done"

\* C30: when the fetched batch holds two candidates with the same (source,
\* latitude, longitude, acquisition date, acquisition time) and no stored
\* hotspot matches them, deduplicate returns both as new, the insert raises
\* on the unique constraint, and the cycle ends FAILED with no hotspot of
\* the batch committed.
C30_TwinCandidatesFailTheCycle == [][TwinsFailTheCycle]_vars

\* a cycle that fetched the same detection twice has ended
C30_Witness ==
  /\ pc = "done"
  /\ HasTwins(new_hotspots)
  /\ "store_hotspots" \in raised
  /\ record.status = FAILED
  /\ Range(new_hotspots) \cap db_hotspots = {}

----------------------------------------------------------------------------
(* Properties of the run record's counts *)

NewHotspotsCountsCommittedRows ==
  /\ (pc = "dedup" /\ pc' # "dedup") =>
       record'.new_hotspots
         = Cardinality(db_hotspots') - Cardinality(db_hotspots)
  /\ (pc # "dedup" /\ run_id' = run_id) =>
       /\ record'.new_hotspots = record.new_hotspots
       /\ db_hotspots' = db_hotspots

\* C31: on every path of a cycle, a failure of its dedup+store stage
\* included, the run record's new_hotspots is the number of rows the cycle
\* committed to the hotspots table: the dedup stage sets it to the number
\* of rows it added, and no other stage changes the count or the table.
C31_NewHotspotsAreCommittedRows ==
  [][NewHotspotsCountsCommittedRows]_vars

----------------------------------------------------------------------------
(* Properties of the classify stage's persistence *)

\* the stored intent of every row is what it was, and a new row has none
StoredIntentUnchanged ==
  /\ Len(db_events') >= Len(db_events)
  /\ \A i \in 1..Len(db_events') :
       db_events'[i].intent_score =
         IF i <= Len(db_events) THEN db_events[i].intent_score ELSE NoneVal

IntentAllOrNothing ==
  /\ (pc = "classify" /\ "classify" \in stage_failures') =>
       StoredIntentUnchanged
  /\ pc # "classify" => StoredIntentUnchanged
  /\ (pc = "classify" /\ pc' # "classify" /\ events # <<>>
        /\ stage_failures' = stage_failures /\ "cluster" \notin stage_failures)
       => \A k \in 1..Len(events), i \in 1..Len(db_events') :
            db_events'[i].id = events[k].id
              => db_events'[i].intent_score # NoneVal

\* C32: the intent of a cycle's events is stored all or nothing: a classify
\* stage in which classifying an event raised or the persisting session
\* failed changes no row's stored intent, no other stage changes one, and a
\* classify stage that does not fail stores the intent of every event.
C32_IntentAllOrNothing == [][IntentAllOrNothing]_vars

\* the persisting session of a cycle with events raised
C32_Witness ==
  /\ "persist_intent" \in raised
  /\ "classify" \in stage_failures
  /\ events # <<>>
  /\ \A k \in 1..Len(events) : events[k].intent # NoneVal
  /\ \E i \in 1..Len(db_events) :
       db_events[i].id = events[1].id /\ db_events[i].intent_score = NoneVal

----------------------------------------------------------------------------
(* Properties of the nighttime signal *)

\* the UTC hour of the member with the earliest acquisition timestamp, date
\* and time together
EarliestMemberUtcHour(hotspots) ==
  LET first == CHOOSE i \in 1..Len(hotspots) :
                 \A j \in 1..Len(hotspots) :
                   _hotspot_datetime(hotspots[i]) <= _hotspot_datetime(hotspots[j])
  IN hotspots[first].hotspot.acq_time \div 60

\* C33: the nighttime signal of an event is the score of the local hour (UTC
\* minus 3 hours) of its member with the earliest acquisition timestamp,
\* date and time together, also when the members span a UTC midnight.
C33_NightFromEarliestMember ==
  (pc = "scored_night" /\ scoring_input[1].hotspots # <<>>) =>
    signals[1].score
      = _score_nighttime(EarliestMemberUtcHour(scoring_input[1].hotspots)).score

----------------------------------------------------------------------------
(* Properties of the breakdown's single scores *)

\* the six scores of a breakdown, in the order of the signals
ScoresOf(b) ==
  <<b.lightning_score, b.road_score, b.night_score, b.history_score,
    b.multi_point_score, b.dry_conditions_score>>

\* C34: in every breakdown classify returns, a renormalized one included,
\* each signal's score is at least 0 and at most the signal's configured
\* maximum weight.
C34_ScoresWithinWeights ==
  (pc = "classified" /\ scoring_input # <<>>) =>
    \A i \in 1..Len(signals) :
      /\ 0 <= ScoresOf(breakdown[1])[i]
      /\ ScoresOf(breakdown[1])[i] <= signals[i].max_w

----------------------------------------------------------------------------
(* Properties of the classifier as run_cycle calls it *)

\* self._classifier.classify(event): history_count, months_since_last and
\* nearby_event_count keep their defaults
CalledByRunCycle(inp) ==
  /\ inp.history_count = 0
  /\ inp.months_since_last = <<>>
  /\ inp.nearby_event_count = 0

\* C35: run_cycle calls classify without history and nearby-event
\* arguments, so the history and multi-point scores of the events it
\* classifies are 0 while both signals count as available, and with the
\* weights 25/20/20/15/10/10 the total is at most 75 and the label is never
\* likely_intentional, whatever weather and road context the event has.
C35_PipelineTotalAtMost75 ==
  (pc = "classified" /\ scoring_input # <<>>
     /\ CalledByRunCycle(scoring_input[1])) =>
    /\ breakdown[1].history_score = 0
    /\ breakdown[1].multi_point_score = 0
    /\ signals[4].avail
    /\ signals[5].avail
    /\ total(breakdown[1]) <= 75
    /\ label(breakdown[1]) # "likely_intentional"

\* an event as run_cycle classifies it, with weather and road context and
\* every other signal at its maximum: total 75, label suspicious
C35_Witness ==
  /\ pc = "classified"
  /\ scoring_input # <<>>
  /\ CalledByRunCycle(scoring_input[1])
  /\ scoring_input[1].weather # <<>>
  /\ scoring_input[1].road # <<>>
  /\ total(breakdown[1]) = 75
  /\ label(breakdown[1]) = "suspicious"

----------------------------------------------------------------------------
(* Properties of the rows of fire_events over successive cycles *)

StoreEventsNeverShrink ==
  /\ Len(db_events') >= Len(db_events)
  /\ \A i \in 1..Len(db_events) :
       /\ db_events'[i].id = db_events[i].id
       /\ db_events'[i].hotspot_count >= db_events[i].hotspot_count
       /\ db_events'[i].max_frp >= db_events[i].max_frp
       /\ db_events'[i].last_updated_at >= db_events[i].last_updated_at

\* C36: over any sequence of cycles, and so of cluster calls, the
\* hotspot_count, the max_frp and the last_updated_at of a row of
\* fire_events never decrease.
C36_StoreEventsNeverShrink == [][StoreEventsNeverShrink]_vars

\* a later cycle merged weaker detections into an event of the store: the
\* event counts more hotspots than the cycle gave it and keeps its peak
C36_Witness ==
  /\ run_id > 1
  /\ "cluster" \notin stage_failures
  /\ \E e \in 1..Len(events), i \in 1..Len(db_events) :
       /\ db_events[i].id = events[e].id
       /\ db_events[i].hotspot_count > Len(events[e].hotspots)
       /\ \A k \in 1..Len(events[e].hotspots) :
            events[e].hotspots[k].hotspot.frp < db_events[i].max_frp

----------------------------------------------------------------------------
(* One store read per deduplicate call (dedup.py 79-111) *)

\* C37: a deduplicate call issues at most one store read query, however
\* many candidates the batch holds, and none for an empty batch
C37_AtMostOneStoreRead ==
  /\ execute_count <= calls["deduplicate"]
  /\ execute_count <= 1
  /\ raw_hotspots = <<>> => execute_count = 0

\* deduplicate has returned for a batch of several candidates, some of
\* them duplicates of stored rows, after a single query
C37_Witness ==
  /\ calls["deduplicate"] = 1
  /\ "deduplicate" \notin raised
  /\ Len(raw_hotspots) = MaxDedupBatch
  /\ Len(new_hotspots) < Len(raw_hotspots)
  /\ execute_count = 1

----------------------------------------------------------------------------
(* Provider calls per grid cell (weather.py 139-175) *)

\* C38: for weather queries of the same grid cell within the cache TTL at
\* most one provider call is made, also when concurrently running units of
\* one batch issue them: two provider calls for the same cell are at least
\* one TTL apart
C38_OneProviderCallPerCell ==
  LET wc == weather_client[1] IN
  weather_client # <<>> =>
    \A a, b \in 1..Len(wc.api_calls) :
      (a < b /\ wc.api_calls[a].key = wc.api_calls[b].key)
        => wc.api_calls[b].at - wc.api_calls[a].at >= _CACHE_TTL_MINUTES

----------------------------------------------------------------------------
(* The rate limit of the dispatcher (dispatcher.py 143-202, 262-291) *)

\* the stored alerts of a pair whose sent_at lies in the cooldown window
\* that starts at hour from
AlertsInWindow(a, subscription_id, from) ==
  {i \in 1..Len(a.alerts_sent) :
     /\ a.alerts_sent[i].fire_event_id = a.fe_row.id
     /\ a.alerts_sent[i].subscription_id = subscription_id
     /\ a.alerts_sent[i].sent_at >= from
     /\ a.alerts_sent[i].sent_at <= from + a.alerts.cooldown_hours}

\* every alert a step stores went to a pair with fewer than
\* max_per_event_per_user stored alerts in the cooldown period before it
SentOnlyUnderLimit ==
  LET a == alerting[1]
      after == alerting'[1]
  IN \A i \in (Len(a.alerts_sent) + 1)..Len(after.alerts_sent) :
       Cardinality(
         AlertsInWindow(a, after.alerts_sent[i].subscription_id,
                        a.utcnow - a.alerts.cooldown_hours))
         < a.alerts.max_per_event_per_user

\* no cooldown window holds more than max_per_event_per_user stored alerts
\* of one pair
WindowsWithinLimit ==
  LET a == alerting[1] IN
  \A k \in 1..Len(Subscriptions), from \in 0..a.utcnow :
    Cardinality(AlertsInWindow(a, Subscriptions[k].id, from))
      <= a.alerts.max_per_event_per_user

\* C39: for every (fire event, subscription) pair and across any sequence
\* of dispatch calls, an alert is sent only when fewer than
\* max_per_event_per_user alerts of the pair were recorded within the
\* preceding cooldown period, so no pair has more than that maximum
\* recorded within one cooldown window
C39_RateLimitPerPair ==
  /\ []WindowsWithinLimit
  /\ [][SentOnlyUnderLimit]_vars

\* a pair holds its maximum of stored alerts inside the cooldown period
\* and the last dispatch skipped it for that reason
C39_Witness ==
  LET a == alerting[1] IN
  /\ pc = "cluster_classify"
  /\ "s1" \in a.rate_limited
  /\ a.alerts.max_per_event_per_user = MaxPerPair
  /\ Cardinality(AlertsInWindow(a, "s1",
                                a.utcnow - a.alerts.cooldown_hours))
       = MaxPerPair

----------------------------------------------------------------------------
(* Escalation alerts (dispatcher.py 91-93, 293-338) *)

\* the event is more severe than it was when its most recent stored alert
\* was sent, or its intent total has crossed a threshold upward since then
EscalatedSinceLastAlert(a) ==
  /\ a.alerted_as # <<>>
  /\ \/ severity_gt(a.event[1].severity, a.alerted_as[1].severity)
     \/ _intent_boundary_crossed(a.alerted_as[1].intent_total,
                                 current_intent(a.event[1]))

\* every alert a step stores carries the escalation flag exactly when the
\* event has escalated since its previous alert
FlagsEscalations ==
  LET a == alerting[1]
      after == alerting'[1]
  IN \A i \in (Len(a.alerts_sent) + 1)..Len(after.alerts_sent) :
       after.alerts_sent[i].is_escalation <=> EscalatedSinceLastAlert(a)

\* C40: an alert for an event that already has a prior alert is flagged
\* as an escalation if and only if the event's severity is higher than it
\* was when the previous alert was sent, or its intent score has crossed
\* upward over a boundary (25, 50 or 75) since then; an event with no
\* prior alert is never flagged
C40_EscalationIffEscalated == [][FlagsEscalations]_vars

====
